---------------------------- MODULE Spec2Model ----------------------------
(***************************************************************************)
(* Verification model of the hotel-review RAG service.                     *)
(*                                                                         *)
(* The parts of the program are modelled each with its own                 *)
(* specification over the same variables:                                  *)
(*   Spec          the streaming bridge of POST /api/v1/chat (main.py):    *)
(*                 the producer thread _run_query_stream, the asyncio      *)
(*                 queue and the consumer coroutine generate_sse;          *)
(*   SpecIntent    one call of IntentDetector.detect,                      *)
(*                 IntentExpander.expand or HyDEGenerator.generate         *)
(*                 (intent.py);                                            *)
(*   SpecRetrieve  one call of HybridRetriever.retrieve (retriever.py);    *)
(*   SpecRank      one call of MultiFactorRanker.rank (ranker.py);         *)
(*   SpecQuery     one call of HotelReviewRAG.query, from the chat         *)
(*                 handler or directly (rag_system.py, RAG/lib.py);        *)
(*   SpecIndex     one InvertedIndex: build, search, save, load            *)
(*                 (index.py);                                             *)
(*   SpecServe     the serving process: the index loaded at startup and    *)
(*                 threads that search, read the review table and rank     *)
(*                 at the same time.                                       *)
(***************************************************************************)
EXTENDS Integers, Sequences, FiniteSets, TLC

VARIABLES
    \* ---- streaming bridge, one entry per request
    req,        \* the request: option keys sent and the intent model's answer
    ppc,        \* position of the producer thread (_run_query_stream)
    cpc,        \* position of the consumer coroutine (generate_sse)
    queue,      \* contents of the asyncio.Queue (its _queue deque)
    getter,     \* the future the consumer registered in queue._getters
    held,       \* the item the consumer took and is about to yield
    sent,       \* what the client received
    enq,        \* history: every item ever put on the queue, in order
    cancelAt,   \* history: number of events enqueued when the client disconnected
    \* ---- one call of detect / expand / generate
    icall,
    \* ---- one call of retrieve
    rcall,
    \* ---- one call of HotelReviewRAG.query
    qcall,
    \* ---- one call of MultiFactorRanker.rank
    kcall,
    \* ---- one InvertedIndex instance and the file it is saved to
    xcall,
    \* ---- the serving process: its singletons and its threads
    scall

vars ==
    <<req, ppc, cpc, queue, getter, held, sent, enq, cancelAt, icall, rcall, qcall, kcall, xcall,
      scall>>
bridgeVars == <<req, ppc, cpc, queue, getter, held, sent, enq, cancelAt>>

---------------------------------------------------------------------------
(* Bounds *)

NumRequests == 1

Requests == 1 .. NumRequests

---------------------------------------------------------------------------
(* Python call binding *)

\* Parameters of IntentRecognizer.recognize besides self.
RecognizeParams == {"query"}

\* Keyword arguments query_stream passes when it calls recognize.
RecognizeCallKeywords == {"history"}

\* Keyword parameters of HotelReviewRAG.query_stream.
QueryStreamParams ==
    {"route_topk", "retrieval_topk", "ranking_topk", "enable_expansion",
     "enable_bm25", "enable_vector", "enable_reverse", "enable_hyde",
     "enable_summary", "enable_ranking", "w_relevance", "w_quality",
     "w_length", "w_review", "w_useful", "w_recency", "base_decay",
     "implied_boost", "clear_boost", "half_life_days", "today", "history"}

\* Keywords _run_query_stream writes out itself in the call of query_stream.
StreamCallKeywords == {"enable_hyde"}

\* A call binds when every keyword names a parameter and no keyword is
\* given twice (once written out and once through **options).
BindsKeywords(explicit, starred, params) ==
    /\ explicit \cap starred = {}
    /\ (explicit \cup starred) \subseteq params

\* query_options: the request's options without enable_generation.
QueryOptions(options) == options \ {"enable_generation"}

\* IntentRecognizer.recognize, the body: the answer of the intent model.
recognize(answer) ==
    IF answer = "FAIL" THEN "raise"
    ELSE IF answer = "RETRIEVAL" THEN "true" ELSE "false"

\* The call self.intent_recognizer.recognize(user_query, history=history).
RecognizeCall(answer) ==
    IF BindsKeywords(RecognizeCallKeywords, {}, RecognizeParams)
    THEN recognize(answer)
    ELSE "raise"

\* The first next() of rag_system.query_stream(query_text, enable_hyde=False,
\* **query_options): the events yielded up to and including the first one,
\* or an exception.
QueryStreamFirst(options, answer) ==
    IF ~BindsKeywords(StreamCallKeywords, QueryOptions(options), QueryStreamParams)
    THEN "raise"
    ELSE IF RecognizeCall(answer) = "raise" THEN "raise" ELSE "intent"

---------------------------------------------------------------------------
(* asyncio.Queue *)

\* queue = asyncio.Queue(): maxsize defaults to 0.
QueueMaxsize == 0

\* Queue.full
Full(q) == IF QueueMaxsize <= 0 THEN FALSE ELSE Len(q) >= QueueMaxsize

SENTINEL == "SENTINEL"

EventTypes == {"intent", "references", "chunk", "done", "error"}

\* The events among the items of a queue history.
Events(s) == SelectSeq(s, LAMBDA x : x # SENTINEL)

\* The except branch of _run_query_stream: the items put for an exception.
OnException == <<"error">>

\* The finally branch of _run_query_stream.
OnFinally == <<SENTINEL>>

---------------------------------------------------------------------------
(* Streaming bridge *)

OptionSets == {{}, {"enable_hyde"}, {"enable_generation", "ranking_topk"}}

IntentAnswers == {"RETRIEVAL", "DIRECT", "FAIL"}

BridgeInit ==
    /\ req \in [Requests -> [options : OptionSets, answer : IntentAnswers]]
    /\ ppc = [r \in Requests |-> "idle"]
    /\ cpc = [r \in Requests |-> "init"]
    /\ queue = [r \in Requests |-> <<>>]
    /\ getter = [r \in Requests |-> "none"]
    /\ held = [r \in Requests |-> "none"]
    /\ sent = [r \in Requests |-> <<>>]
    /\ enq = [r \in Requests |-> <<>>]
    /\ cancelAt = [r \in Requests |-> -1]

\* generate_sse, first step: loop.run_in_executor(None, _run_query_stream)
CStart(r) ==
    /\ cpc[r] = "init"
    /\ cpc' = [cpc EXCEPT ![r] = "check"]
    /\ ppc' = [ppc EXCEPT ![r] = "call"]
    /\ UNCHANGED <<req, queue, getter, held, sent, enq, cancelAt, icall, rcall, qcall, kcall, xcall, scall>>

\* Queue.get: `while self.empty()` finds an item, get_nowait takes it;
\* the sentinel ends the loop of generate_sse.
CTake(r) ==
    /\ cpc[r] = "check"
    /\ queue[r] # <<>>
    /\ queue' = [queue EXCEPT ![r] = Tail(@)]
    /\ IF Head(queue[r]) = SENTINEL
       THEN /\ cpc' = [cpc EXCEPT ![r] = "done"]
            /\ held' = held
       ELSE /\ cpc' = [cpc EXCEPT ![r] = "yield"]
            /\ held' = [held EXCEPT ![r] = Head(queue[r])]
    /\ UNCHANGED <<req, ppc, getter, sent, enq, cancelAt, icall, rcall, qcall, kcall, xcall, scall>>

\* Queue.get: `while self.empty()` finds the queue empty.
CEmpty(r) ==
    /\ cpc[r] = "check"
    /\ queue[r] = <<>>
    /\ cpc' = [cpc EXCEPT ![r] = "register"]
    /\ UNCHANGED <<req, ppc, queue, getter, held, sent, enq, cancelAt, icall, rcall, qcall, kcall, xcall, scall>>

\* Queue.get: getter = create_future(); self._getters.append(getter); await
CRegister(r) ==
    /\ cpc[r] = "register"
    /\ getter' = [getter EXCEPT ![r] = "pending"]
    /\ cpc' = [cpc EXCEPT ![r] = "await"]
    /\ UNCHANGED <<req, ppc, queue, held, sent, enq, cancelAt, icall, rcall, qcall, kcall, xcall, scall>>

\* Queue.get: the getter was resolved, the coroutine resumes and tests
\* self.empty() again.
CResume(r) ==
    /\ cpc[r] = "await"
    /\ getter[r] = "set"
    /\ getter' = [getter EXCEPT ![r] = "none"]
    /\ cpc' = [cpc EXCEPT ![r] = "check"]
    /\ UNCHANGED <<req, ppc, queue, held, sent, enq, cancelAt, icall, rcall, qcall, kcall, xcall, scall>>

\* generate_sse: yield item
CYield(r) ==
    /\ cpc[r] = "yield"
    /\ sent' = [sent EXCEPT ![r] = Append(@, held[r])]
    /\ held' = [held EXCEPT ![r] = "none"]
    /\ cpc' = [cpc EXCEPT ![r] = "check"]
    /\ UNCHANGED <<req, ppc, queue, getter, enq, cancelAt, icall, rcall, qcall, kcall, xcall, scall>>

\* The client closes the connection: the response task is cancelled at the
\* point where generate_sse is suspended (await queue.get() or yield).
\* Nothing in chat tells the producer thread.
CCancel(r) ==
    /\ cpc[r] \in {"await", "yield"}
    /\ cpc' = [cpc EXCEPT ![r] = "cancelled"]
    /\ getter' = [getter EXCEPT ![r] = "none"]
    /\ held' = [held EXCEPT ![r] = "none"]
    /\ cancelAt' = [cancelAt EXCEPT ![r] = Len(Events(enq[r]))]
    /\ UNCHANGED <<req, ppc, queue, sent, enq, icall, rcall, qcall, kcall, xcall, scall>>

\* Queue.put_nowait, first half: the full() test and self._put(item).
PutNowait(r, items, next) ==
    /\ ~Full(queue[r])
    /\ queue' = [queue EXCEPT ![r] = @ \o items]
    /\ enq' = [enq EXCEPT ![r] = @ \o items]
    /\ ppc' = [ppc EXCEPT ![r] = next]

\* Queue.put_nowait, second half: self._wakeup_next(self._getters).
WakeupNext(r, next) ==
    /\ getter' = [getter EXCEPT ![r] = IF @ = "pending" THEN "set" ELSE @]
    /\ ppc' = [ppc EXCEPT ![r] = next]

\* _run_query_stream: `for event in rag_system.query_stream(...)`, the call
\* and the first next().
PCall(r) ==
    /\ ppc[r] = "call"
    /\ ppc' = [ppc EXCEPT ![r] =
                 IF QueryStreamFirst(req[r].options, req[r].answer) = "raise"
                 THEN "except" ELSE "intent"]
    /\ UNCHANGED <<req, cpc, queue, getter, held, sent, enq, cancelAt, icall, rcall, qcall, kcall, xcall, scall>>

\* _run_query_stream: except Exception: queue.put_nowait(error event)
PPutError(r) ==
    /\ ppc[r] = "except"
    /\ PutNowait(r, OnException, "except_wake")
    /\ UNCHANGED <<req, cpc, getter, held, sent, cancelAt, icall, rcall, qcall, kcall, xcall, scall>>

PWakeError(r) ==
    /\ ppc[r] = "except_wake"
    /\ WakeupNext(r, "finally")
    /\ UNCHANGED <<req, cpc, queue, held, sent, enq, cancelAt, icall, rcall, qcall, kcall, xcall, scall>>

\* _run_query_stream: finally: queue.put_nowait(_SENTINEL)
PPutSentinel(r) ==
    /\ ppc[r] = "finally"
    /\ PutNowait(r, OnFinally, "finally_wake")
    /\ UNCHANGED <<req, cpc, getter, held, sent, cancelAt, icall, rcall, qcall, kcall, xcall, scall>>

PWakeSentinel(r) ==
    /\ ppc[r] = "finally_wake"
    /\ WakeupNext(r, "done")
    /\ UNCHANGED <<req, cpc, queue, held, sent, enq, cancelAt, icall, rcall, qcall, kcall, xcall, scall>>

---------------------------------------------------------------------------
(* JSON values as json.loads returns them *)

JNull == [t |-> "null", v |-> "", n |-> 0]
JStr(s) == [t |-> "str", v |-> s, n |-> 0]
JNum(k) == [t |-> "num", v |-> "", n |-> k]
JBool(b) == [t |-> "bool", v |-> "", n |-> IF b THEN 1 ELSE 0]
\* a list of k elements
JList(k) == [t |-> "list", v |-> "", n |-> k]

\* Python truth value: None, "", 0, False and [] are false.
Truthy(j) ==
    CASE j.t = "null" -> FALSE
      [] j.t = "str" -> j.v # ""
      [] OTHER -> j.n # 0

\* Python `j in names` for a list of strings.
InList(j, names) == j.t = "str" /\ j.v \in names

---------------------------------------------------------------------------
(* IntentDetector.detect, IntentExpander.expand, HyDEGenerator.generate *)

RetryAttemptsOneMore == 2 + 1

\* for i in range(2)
RetryAttempts == 2

\* EXACT_ROOM_TYPES and FUZZY_ROOM_TYPES, two names of each
ExactRoomTypes == {"GardenKing", "GardenTwin"}
FuzzyRoomTypes == {"King", "Suite"}
TimeSensitivities == {"clear", "implied"}

\* detect, the three post-validations:
\*   if data[k] and data[k] not in allowed: data[k] = None
CoerceField(j, allowed) ==
    IF Truthy(j) /\ ~InList(j, allowed) THEN JNull ELSE j

\* detect, the body of one attempt on a parsed JSON object with all keys.
DetectValidate(data) ==
    [room_type |-> CoerceField(data.room_type, ExactRoomTypes),
     fuzzy_room_type |-> CoerceField(data.fuzzy_room_type, FuzzyRoomTypes),
     time_sensitivity |-> CoerceField(data.time_sensitivity, TimeSensitivities)]

\* detect, the fallback after the loop
DetectFallback ==
    [room_type |-> JNull, fuzzy_room_type |-> JNull, time_sensitivity |-> JNull]

\* Weights are kept in tenths: 6 stands for 0.6.
StrToTenths == [x \in {"0.4", "0.5"} |-> IF x = "0.4" THEN 4 ELSE 5]

\* float(item['weight']): numbers, booleans and numeric strings convert,
\* None, lists and other strings raise.
FloatOk(j) ==
    \/ j.t \in {"num", "bool"}
    \/ (j.t = "str" /\ j.v \in DOMAIN StrToTenths)

FloatOf(j) ==
    IF j.t = "str" THEN StrToTenths[j.v]
    ELSE IF j.t = "bool" THEN 10 * j.n ELSE j.n

\* expand, the loop over the items: item['query'] and float(item['weight'])
\* must both succeed for every item.
ExpandItemsOk(items) ==
    \A k \in 1 .. Len(items) : items[k].hasQuery /\ FloatOk(items[k].weight)

\* expand, the list it returns
ExpandConvert(items) ==
    [k \in 1 .. Len(items) |-> [query |-> k, weight |-> FloatOf(items[k].weight)]]

\* expand, the list it returns
ExpandReturn(items) == [none |-> FALSE, queries |-> ExpandConvert(items)]

\* expand, the fallback after the loop: None
ExpandFallback == [none |-> TRUE, queries |-> <<>>]

\* generate, the fallback after the loop: [query]
HydeFallback == <<"QUERY">>

\* The first exception an attempt of expand runs into, "" when there is none.
ExpandException(ans) ==
    IF ~ans.isList THEN "TypeError"
    ELSE IF \E k \in 1 .. Len(ans.items) :
                /\ ~ans.items[k].hasQuery
                /\ \A m \in 1 .. k - 1 : FloatOk(ans.items[m].weight)
         THEN "KeyError"
         ELSE IF ExpandItemsOk(ans.items) THEN "" ELSE "ValueError"

\* The exception the LLM call, json.loads or the subscript raises for an
\* answer that is not a JSON object with the expected key.
AnswerException(kind) ==
    CASE kind = "llm_error" -> "RuntimeError"
      [] kind = "not_json" -> "JSONDecodeError"
      [] kind = "array" -> "TypeError"
      [] kind = "missing_key" -> "KeyError"
      [] OTHER -> ""

\* What the try block of one attempt makes of the answer of the LLM: the
\* exception raised ("" when none) and the value returned.
AttemptOutcome(fn, ans) ==
    IF ans.kind # "object"
    THEN [exc |-> AnswerException(ans.kind), value |-> <<>>]
    ELSE CASE fn = "detect" ->
                [exc |-> "", value |-> DetectValidate(ans.data)]
           [] fn = "expand" ->
                IF ExpandException(ans) = ""
                THEN [exc |-> "", value |-> ExpandReturn(ans.items)]
                ELSE [exc |-> ExpandException(ans), value |-> <<>>]
           [] fn = "hyde" ->
                IF ans.isList
                THEN [exc |-> "", value |-> [k \in 1 .. ans.count |-> k]]
                ELSE [exc |-> "TypeError", value |-> <<>>]

\* `except Exception` catches every exception class an attempt can raise.
Caught(exc) ==
    exc \in {"RuntimeError", "JSONDecodeError", "TypeError", "KeyError", "ValueError"}

Fallback(fn) ==
    CASE fn = "detect" -> DetectFallback
      [] fn = "expand" -> ExpandFallback
      [] fn = "hyde" -> HydeFallback

(* Answers of the LLM *)

MaxSubQueries == 4
MaxHypotheses == 3

\* kinds of answer on which every attempt raises: the LLM call fails, the
\* text is not JSON, the JSON is an array, the JSON object lacks the key
FailingKinds == {"llm_error", "not_json", "array", "missing_key"}

FieldValues ==
    {JNull, JStr(""), JStr("GardenKing"), JStr("King"), JStr("clear"),
     JStr("none"), JNum(0), JNum(5), JBool(FALSE), JBool(TRUE), JList(0), JList(1)}

DetectAnswers ==
    [kind : FailingKinds, data : {DetectFallback}]
    \cup [kind : {"object"},
          data : [room_type : FieldValues, fuzzy_room_type : FieldValues,
                  time_sensitivity : FieldValues]]

WeightValues ==
    {JNum(2), JNum(5), JNum(6), JNum(10), JStr("0.4"), JStr("high")}

\* items with the key 'query', and one item without it
ExpandItems ==
    [hasQuery : {TRUE}, weight : WeightValues]
    \cup {[hasQuery |-> FALSE, weight |-> JNum(2)]}

SeqsUpTo(S, n) == UNION {[1 .. k -> S] : k \in 0 .. n}

ExpandAnswers ==
    [kind : FailingKinds, isList : {FALSE}, items : {<<>>}]
    \cup [kind : {"object"}, isList : {FALSE}, items : {<<>>}]
    \cup [kind : {"object"}, isList : {TRUE}, items : SeqsUpTo(ExpandItems, MaxSubQueries)]

HydeAnswers ==
    [kind : FailingKinds, isList : {FALSE}, count : {0}]
    \cup [kind : {"object"}, isList : {FALSE}, count : {0}]
    \cup [kind : {"object"}, isList : {TRUE}, count : 0 .. MaxHypotheses]

Answers(fn) ==
    CASE fn = "detect" -> DetectAnswers
      [] fn = "expand" -> ExpandAnswers
      [] fn = "hyde" -> HydeAnswers

IntentFunctions == {"detect", "expand", "hyde"}

IdleIntent ==
    [fn |-> "none", status |-> "idle", i |-> 0, calls |-> 0, fails |-> 0,
     result |-> <<>>, fell |-> {}]

\* A caller starts detect, expand or generate.
IStart(fn) ==
    /\ icall.status \in {"idle", "returned"}
    /\ icall' = [icall EXCEPT !.fn = fn, !.status = "running", !.i = 0,
                              !.calls = 0, !.fails = 0, !.result = <<>>]
    /\ UNCHANGED <<bridgeVars, rcall, qcall, kcall, xcall, scall>>

\* One iteration of `for i in range(2)`: the LLM call, the parse and the
\* validation; return on success; on a caught exception sleep (first
\* iteration only) and go round again.
IAttempt ==
    /\ icall.status = "running"
    /\ icall.i < RetryAttempts
    /\ \E ans \in Answers(icall.fn) :
          LET out == AttemptOutcome(icall.fn, ans)
          IN  IF out.exc = ""
              THEN icall' = [icall EXCEPT !.calls = @ + 1,
                                          !.status = "returned",
                                          !.result = out.value]
              ELSE IF Caught(out.exc)
              THEN icall' = [icall EXCEPT !.calls = @ + 1,
                                          !.fails = @ + 1,
                                          !.i = @ + 1]
              ELSE icall' = [icall EXCEPT !.calls = @ + 1,
                                          !.fails = @ + 1,
                                          !.status = "raised"]
    /\ UNCHANGED <<bridgeVars, rcall, qcall, kcall, xcall, scall>>

\* The loop is exhausted: the function returns its fallback.
IFallback ==
    /\ icall.status = "running"
    /\ icall.i >= RetryAttempts
    /\ icall' = [icall EXCEPT !.status = "returned",
                              !.result = Fallback(icall.fn),
                              !.fell = @ \cup {icall.fn}]
    /\ UNCHANGED <<bridgeVars, rcall, qcall, kcall, xcall, scall>>

---------------------------------------------------------------------------
(* Python floats: IEEE 754 binary64 with round-to-nearest-even *)

\* Natural numbers of any size, as sequences of limbs below LimbBase, the
\* least significant limb first and the last limb non-zero; <<>> is zero.
LimbBits == 15
LimbBase == 2 ^ LimbBits

RECURSIVE BigTrim(_)
BigTrim(x) ==
    IF x = <<>> THEN x
    ELSE IF x[Len(x)] = 0 THEN BigTrim(SubSeq(x, 1, Len(x) - 1)) ELSE x

RECURSIVE BigOf(_)
BigOf(n) == IF n = 0 THEN <<>> ELSE <<n % LimbBase>> \o BigOf(n \div LimbBase)

RECURSIVE BigAddCarry(_, _, _)
BigAddCarry(x, y, carry) ==
    IF x = <<>> /\ y = <<>> THEN BigOf(carry)
    ELSE LET s == (IF x = <<>> THEN 0 ELSE Head(x)) + (IF y = <<>> THEN 0 ELSE Head(y)) + carry
         IN  <<s % LimbBase>>
             \o BigAddCarry(IF x = <<>> THEN x ELSE Tail(x),
                            IF y = <<>> THEN y ELSE Tail(y), s \div LimbBase)

BigAdd(x, y) == BigAddCarry(x, y, 0)

\* x - y for x >= y
RECURSIVE BigSubBorrow(_, _, _)
BigSubBorrow(x, y, borrow) ==
    IF x = <<>> THEN <<>>
    ELSE LET s == Head(x) - (IF y = <<>> THEN 0 ELSE Head(y)) - borrow
         IN  <<IF s < 0 THEN s + LimbBase ELSE s>>
             \o BigSubBorrow(Tail(x), IF y = <<>> THEN y ELSE Tail(y),
                             IF s < 0 THEN 1 ELSE 0)

BigSub(x, y) == BigTrim(BigSubBorrow(x, y, 0))

RECURSIVE BigCmpAt(_, _, _)
BigCmpAt(x, y, k) ==
    IF k = 0 THEN 0
    ELSE IF x[k] < y[k] THEN -1
    ELSE IF x[k] > y[k] THEN 1
    ELSE BigCmpAt(x, y, k - 1)

\* -1, 0 or 1 as x is below, equal to or above y
BigCmp(x, y) ==
    IF Len(x) < Len(y) THEN -1
    ELSE IF Len(x) > Len(y) THEN 1
    ELSE BigCmpAt(x, y, Len(x))

\* x * s for 0 <= s <= LimbBase
RECURSIVE BigMulSmallCarry(_, _, _)
BigMulSmallCarry(x, s, carry) ==
    IF x = <<>> THEN BigOf(carry)
    ELSE LET p == Head(x) * s + carry
         IN  <<p % LimbBase>> \o BigMulSmallCarry(Tail(x), s, p \div LimbBase)

BigMulSmall(x, s) == IF s = 0 THEN <<>> ELSE BigMulSmallCarry(x, s, 0)

RECURSIVE BigMul(_, _)
BigMul(x, y) ==
    IF x = <<>> \/ y = <<>> THEN <<>>
    ELSE LET rest == BigMul(x, Tail(y))
         IN  BigAdd(BigMulSmall(x, Head(y)), IF rest = <<>> THEN rest ELSE <<0>> \o rest)

\* quotient and remainder of x by s for 0 < s <= LimbBase
RECURSIVE BigDivSmallAt(_, _, _, _)
BigDivSmallAt(x, s, k, r) ==
    IF k = 0 THEN [q |-> <<>>, r |-> r]
    ELSE LET cur == r * LimbBase + x[k]
             low == BigDivSmallAt(x, s, k - 1, cur % s)
         IN  [q |-> Append(low.q, cur \div s), r |-> low.r]

BigDivTrim(d) == [q |-> BigTrim(d.q), r |-> d.r]

BigDivSmall(x, s) == BigDivTrim(BigDivSmallAt(x, s, Len(x), 0))

\* x * 2^n and floor(x / 2^n)
BigShl(x, n) ==
    IF x = <<>> THEN x
    ELSE [k \in 1 .. (n \div LimbBits) |-> 0] \o BigMulSmall(x, 2 ^ (n % LimbBits))

BigShr(x, n) ==
    IF n \div LimbBits >= Len(x) THEN <<>>
    ELSE BigDivSmall(SubSeq(x, (n \div LimbBits) + 1, Len(x)), 2 ^ (n % LimbBits)).q

RECURSIVE BitLength(_)
BitLength(n) == IF n = 0 THEN 0 ELSE 1 + BitLength(n \div 2)

BigBits(x) == IF x = <<>> THEN 0 ELSE LimbBits * (Len(x) - 1) + BitLength(x[Len(x)])

\* A float x >= 0 is the record [m, e] with x = m * 2^e, and m of exactly
\* MantissaBits bits unless x is 0.0 (exponents stay far from the subnormal
\* and the overflow range here).
MantissaBits == 53

FloatZero == [m |-> <<>>, e |-> 0]

\* q or q + 1 for the quotient q of a division by 2^s: c is -1, 0 or 1 as
\* the remainder is below, equal to or above the half of 2^s, and a tie
\* goes to the even one
RoundHalfEven(q, c) ==
    IF c > 0 \/ (c = 0 /\ q[1] % 2 = 1) THEN BigAdd(q, <<1>>) ELSE q

\* the float r * 2^e for r of MantissaBits bits, or of one more after a
\* round up to a power of two
FloatOfRounded(r, e) ==
    IF BigBits(r) > MantissaBits THEN [m |-> BigShr(r, 1), e |-> e + 1]
    ELSE [m |-> r, e |-> e]

\* x / 2^s to the nearest natural number, q its floor
RoundShift(x, s, q) ==
    RoundHalfEven(q, BigCmp(BigSub(x, BigShl(q, s)), BigShl(<<1>>, s - 1)))

\* FloatRound for x with s bits more than the mantissa has
FloatRoundBy(x, e, s) ==
    IF x = <<>> THEN FloatZero
    ELSE IF s <= 0 THEN [m |-> BigShl(x, 0 - s), e |-> e + s]
    ELSE FloatOfRounded(RoundShift(x, s, BigShr(x, s)), e + s)

\* the float nearest to x * 2^e, ties to the even mantissa
FloatRound(x, e) == FloatRoundBy(x, e, BigBits(x) - MantissaBits)

\* hi + lo for floats above 0.0 with hi.e >= lo.e
FloatAddAligned(hi, lo) == FloatRound(BigAdd(BigShl(hi.m, hi.e - lo.e), lo.m), lo.e)

\* a + b
FloatAdd(a, b) ==
    IF a.m = <<>> THEN b
    ELSE IF b.m = <<>> THEN a
    ELSE FloatAddAligned(IF a.e >= b.e THEN a ELSE b, IF a.e >= b.e THEN b ELSE a)

\* a * b
FloatMul(a, b) == FloatRound(BigMul(a.m, b.m), a.e + b.e)

\* num / den for integers 0 <= num and 0 < den <= LimbBase: the quotient is
\* taken to more bits than the mantissa has, with a last bit that says
\* whether a remainder is left, and rounded once.
BigSticky(d) == BigAdd(BigShl(d.q, 1), IF d.r = 0 THEN <<>> ELSE <<1>>)

FloatDiv(num, den) ==
    FloatRound(BigSticky(BigDivSmall(BigShl(BigOf(num), 5 * LimbBits), den)),
               0 - (5 * LimbBits + 1))

\* a < b
FloatLess(a, b) ==
    IF b.m = <<>> THEN FALSE
    ELSE IF a.m = <<>> THEN TRUE
    ELSE a.e < b.e \/ (a.e = b.e /\ BigCmp(a.m, b.m) < 0)

\* A real v >= 0 in fixed point: the natural number floor(v * 2^FixBits).
FixBits == 7 * LimbBits

FixOne == BigShl(<<1>>, FixBits)

FixOfFloat(x) == BigShl(x.m, FixBits + x.e)

\* the series of exp(-x): the terms x^k / k! from the k-th on, those of even
\* k and those of odd k summed apart
RECURSIVE ExpTerms(_, _, _, _, _)
ExpTerms(x, k, term, even, odd) ==
    IF term = <<>> THEN [even |-> even, odd |-> odd]
    ELSE ExpTerms(x, k + 1, BigDivSmall(BigShr(BigMul(term, x), FixBits), k + 1).q,
                  IF k % 2 = 0 THEN BigAdd(even, term) ELSE even,
                  IF k % 2 = 1 THEN BigAdd(odd, term) ELSE odd)

\* exp(-x) for a float x >= 0: the series taken to FixBits bits, rounded once
ExpOfSums(sums) == FloatRound(BigSub(sums.even, sums.odd), 0 - FixBits)

FloatExpNeg(x) == ExpOfSums(ExpTerms(FixOfFloat(x), 0, FixOne, <<>>, <<>>))

---------------------------------------------------------------------------
(* HybridRetriever.retrieve *)

\* _rrf_fusion(comment_results, weights, k=60)
RrfK == 60

\* topk, the number of hits asked of the index and of the stores per query
RouteTopk == 2

CommentRoutes == {"bm25", "vector", "reverse", "hyde"}
Routes == CommentRoutes \cup {"summary"}

Perms(n) == {f \in [1 .. n -> 1 .. n] : \A a, b \in 1 .. n : f[a] = f[b] => a = b}

RECURSIVE Flatten(_)
Flatten(ss) == IF ss = <<>> THEN <<>> ELSE Head(ss) \o Flatten(Tail(ss))

Take(s, n) == SubSeq(s, 1, IF Len(s) < n THEN Len(s) ELSE n)

\* What the index and the stores answer.  ranking[route][q] is the ranked
\* list of comment ids for sub-query q (q counts from 1 here, query_idx from
\* 0 in the code); hyde[q][h] the list for hypothesis h of sub-query q;
\* category[q] the n=1 hit of the summary store, "" when it has none.  In
\* the last one the HyDE generator returns an empty list of hypotheses.
Fixtures ==
    { [ranking |-> [r \in {"bm25", "vector", "reverse"} |->
                       IF r = "bm25" THEN << <<"a", "b", "c">>, <<"b">> >>
                       ELSE IF r = "vector" THEN << <<"b", "a">>, <<"a", "c">> >>
                       ELSE << <<>>, <<"c">> >>],
       hyde |-> << << <<"a", "b">>, <<"b", "a">> >>, << <<"c">>, <<"c", "a">> >> >>,
       category |-> <<"food", "food">>],
      [ranking |-> [r \in {"bm25", "vector", "reverse"} |->
                       IF r = "bm25" THEN << <<"b", "a">>, <<"a", "b">> >>
                       ELSE IF r = "vector" THEN << <<"a">>, <<>> >>
                       ELSE << <<"a", "b">>, <<"b", "a">> >>],
       hyde |-> << << <<"b">>, <<"a", "b">> >>, << <<>>, <<"b">> >> >>,
       category |-> <<"room", "">>],
      [ranking |-> [r \in {"bm25", "vector", "reverse"} |->
                       IF r = "bm25" THEN << <<"c">>, <<>> >>
                       ELSE IF r = "vector" THEN << <<"a">>, <<"b", "c">> >>
                       ELSE << <<>>, <<>> >>],
       hyde |-> << << <<>>, <<>> >>, << <<>>, <<>> >> >>,
       category |-> <<"", "">>],
      [ranking |-> [r \in {"bm25", "vector", "reverse"} |->
                       IF r = "bm25" THEN << <<"a">>, <<>> >> ELSE << <<>>, <<>> >>],
       hyde |-> << <<>>, <<>> >>,
       category |-> <<"", "">>] }

\* The tuples (doc_id, route, rank, metadata) a single query emits:
\* rank counts from 1, query_idx from 0.
QueryHits(route, q, h, docs) ==
    [k \in 1 .. Len(Take(docs, RouteTopk)) |->
        [doc |-> docs[k], route |-> route, rank |-> k, qidx |-> q - 1, hidx |-> h - 1]]

\* _route_bm25 / _route_vector / _route_reverse: the hits of the sub-queries,
\* extended in the order `order` in which the per-query tasks complete.
RouteHits(fx, route, n, order) ==
    Flatten([k \in 1 .. n |-> QueryHits(route, order[k], 1, fx.ranking[route][order[k]])])

\* _single_hyde_pipeline, the dedup loop: keep per doc_id the hit of lowest
\* rank, the first one seen among equals; the dict keeps first-seen order.
RECURSIVE HydeDedup(_, _)
HydeDedup(raw, best) ==
    IF raw = <<>> THEN best
    ELSE LET item == Head(raw)
             at == {k \in 1 .. Len(best) : best[k].doc = item.doc}
         IN  IF at = {} THEN HydeDedup(Tail(raw), Append(best, item))
             ELSE LET k == CHOOSE k \in at : TRUE
                  IN  IF item.rank < best[k].rank
                      THEN HydeDedup(Tail(raw), [best EXCEPT ![k] = item])
                      ELSE HydeDedup(Tail(raw), best)

SingleHydeUndeduplicated(fx, q, horder) ==
    Flatten([k \in 1 .. Len(fx.hyde[q]) |->
                QueryHits("hyde", q, horder[k], fx.hyde[q][horder[k]])])

\* _single_hyde_pipeline for sub-query q, the hypothesis tasks completing in
\* the order horder.
SingleHyde(fx, q, horder) ==
    HydeDedup(Flatten([k \in 1 .. Len(fx.hyde[q]) |->
                          QueryHits("hyde", q, horder[k], fx.hyde[q][horder[k]])]), <<>>)

\* the number of hypotheses the HyDE generator returns per sub-query
NumHypotheses(fx) == Len(fx.hyde[1])

\* The orders in which the hypothesis tasks of the n sub-queries can
\* complete: each _single_hyde_pipeline has its own as_completed loop.
HypothesisOrders(fx, n) == [1 .. n -> Perms(NumHypotheses(fx))]

\* _route_hyde: the sub-query pipelines completing in the order `order`,
\* the hypothesis tasks of sub-query q in the order horders[q].
HydeHits(fx, n, order, horders) ==
    Flatten([k \in 1 .. n |-> SingleHyde(fx, order[k], horders[order[k]])])

\* _route_summary: one entry per category, in first-recalled order, with the
\* indices of the sub-queries that recalled it.
RECURSIVE SummaryMerge(_, _, _)
SummaryMerge(cats, q, acc) ==
    IF q > Len(cats) THEN acc
    ELSE IF cats[q] = "" THEN SummaryMerge(cats, q + 1, acc)
    ELSE LET at == {k \in 1 .. Len(acc) : acc[k].category = cats[q]}
         IN  IF at = {}
             THEN SummaryMerge(cats, q + 1,
                      Append(acc, [category |-> cats[q], retrieved_by_queries |-> <<q - 1>>]))
             ELSE LET k == CHOOSE k \in at : TRUE
                  IN  SummaryMerge(cats, q + 1,
                          [acc EXCEPT ![k].retrieved_by_queries = Append(@, q - 1)])

SummaryHitsPerQuery(fx, n) ==
    SelectSeq([q \in 1 .. Len(Take(fx.category, n)) |->
                  [category |-> fx.category[q], retrieved_by_queries |-> <<q - 1>>]],
              LAMBDA e : e.category # "")

SummaryHits(fx, n) == SummaryMerge(Take(fx.category, n), 1, <<>>)

\* A weight is kept in tenths; the float the code holds is the one nearest
\* to the decimal, as the parser of the number gives it.
WeightFloat(tenths) == FloatDiv(tenths, 10)

RrfTermUnweighted(hit, weights) == FloatDiv(1, RrfK + hit.rank)

\* (1 / (k + rank)) * weight: a float division followed by a float
\* multiplication
RrfProduct(rank, tenths) == FloatMul(FloatDiv(1, RrfK + rank), WeightFloat(tenths))

\* the products for the ranks a query can give and the weights from 0.0 to
\* 1.0, computed once
RrfProducts == [rank \in 1 .. RouteTopk, tenths \in 0 .. 10 |-> RrfProduct(rank, tenths)]

\* one term of _rrf_fusion: (1 / (k + rank)) * weights[query_idx]
RrfTerm(hit, weights) ==
    IF <<hit.rank, weights[hit.qidx + 1]>> \in DOMAIN RrfProducts
    THEN RrfProducts[hit.rank, weights[hit.qidx + 1]]
    ELSE RrfProduct(hit.rank, weights[hit.qidx + 1])

\* _rrf_fusion: the dict of scores; its keys in first-seen order.
RECURSIVE RrfKeys(_, _)
RrfKeys(hits, keys) ==
    IF hits = <<>> THEN keys
    ELSE IF \E k \in 1 .. Len(keys) : keys[k] = Head(hits).doc
         THEN RrfKeys(Tail(hits), keys)
         ELSE RrfKeys(Tail(hits), Append(keys, Head(hits).doc))

\* rrf_scores[doc_id] += term, hit after hit from 0.0: the float additions
\* are made in the order in which the hits arrive.
RECURSIVE RrfAccumulate(_, _, _, _)
RrfAccumulate(hits, weights, doc, acc) ==
    IF hits = <<>> THEN acc
    ELSE RrfAccumulate(Tail(hits), weights, doc,
                       IF Head(hits).doc = doc
                       THEN FloatAdd(acc, RrfTerm(Head(hits), weights))
                       ELSE acc)

RrfScore(hits, weights, doc) == RrfAccumulate(hits, weights, doc, FloatZero)

\* sorted(rrf_scores.items(), key=score, reverse=True): a stable sort, so
\* comments of equal score stay in dict order.
RECURSIVE InsertSorted(_, _, _)
InsertSorted(sorted, item, pos) ==
    IF pos > Len(sorted) THEN Append(sorted, item)
    ELSE IF FloatLess(sorted[pos].score, item.score)
         THEN SubSeq(sorted, 1, pos - 1) \o <<item>> \o SubSeq(sorted, pos, Len(sorted))
         ELSE InsertSorted(sorted, item, pos + 1)

RECURSIVE StableSortDesc(_, _)
StableSortDesc(items, acc) ==
    IF items = <<>> THEN acc
    ELSE StableSortDesc(Tail(items), InsertSorted(acc, Head(items), 1))

RrfSorted(hits, weights) ==
    LET keys == RrfKeys(hits, <<>>)
    IN  StableSortDesc([k \in 1 .. Len(keys) |->
                           [doc |-> keys[k], score |-> RrfScore(hits, weights, keys[k])]], <<>>)

RouteRanksFirstHitOnly(route_results, doc) ==
    [r \in {x \in DOMAIN route_results :
               \E k \in 1 .. Len(route_results[x]) : route_results[x][k].doc = doc} |->
        <<Head(SelectSeq(route_results[r], LAMBDA h : h.doc = doc))>>]

\* route_ranks of one candidate: under each route with a hit of the comment,
\* the hits of that route, in route order.
RouteRanks(route_results, doc) ==
    [r \in {x \in DOMAIN route_results :
               \E k \in 1 .. Len(route_results[x]) : route_results[x][k].doc = doc} |->
        SelectSeq(route_results[r], LAMBDA h : h.doc = doc)]

\* retrieve, from the RRF fusion to the list it returns
FinalComments(comment_results, route_results, weights, final_topk) ==
    LET ranked == RrfSorted(comment_results, weights)
    IN  [k \in 1 .. Len(Take(ranked, final_topk)) |->
            [comment_id |-> ranked[k].doc,
             rrf_score |-> ranked[k].score,
             rrf_rank |-> k,
             route_ranks |-> RouteRanks(route_results, ranked[k].doc)]]

\* room_filter = None
NoFilter == [field |-> "", value |-> ""]

\* the room filter of a call:
\*   if room_type: "room_type = '...'"  elif fuzzy_room_type: "fuzzy_room_type = '...'"
RoomFilter(room_type, fuzzy_room_type) ==
    IF Truthy(room_type) THEN [field |-> "room_type", value |-> room_type.v]
    ELSE IF Truthy(fuzzy_room_type)
         THEN [field |-> "fuzzy_room_type", value |-> fuzzy_room_type.v]
         ELSE NoFilter

FilteredRoutesButHyde == {"vector", "reverse"}

\* the routes whose task is submitted with room_filter
FilteredRoutes == {"vector", "reverse", "hyde"}

\* the filter the index search or store queries of a route carry
RouteFilter(route, room_filter) ==
    IF route \in FilteredRoutes THEN room_filter ELSE NoFilter

\* ThreadPoolExecutor(max_workers=n) raises ValueError unless n > 0.
PoolRaises(workers) == workers <= 0

\* The worker pools the task of a route creates: one worker per sub-query,
\* and in _single_hyde_pipeline one worker per hypothesis embedding.
RoutePools(fx, route, n) ==
    IF route = "summary" THEN {}
    ELSE IF route = "hyde"
         THEN {[pool |-> "hyde", workers |-> n],
               [pool |-> "hypotheses", workers |-> NumHypotheses(fx)]}
         ELSE {[pool |-> route, workers |-> n]}

\* How far the task of the HyDE route can get: "embed" when the embedding of
\* the hypotheses raises in every pipeline, "pool" when the pool of the
\* hypothesis tasks is asked for (and raises, for no hypotheses), "query"
\* when a hypothesis task queries the comment store.
HydeReaches(fx) == IF NumHypotheses(fx) = 0 THEN {"embed", "pool"} ELSE {"embed", "query"}

\* the worker pools the task of a route asked for when it ended, the HyDE
\* task having got as far as reach
TaskPools(fx, route, n, reach) ==
    IF route = "hyde" /\ reach = "embed" THEN {[pool |-> "hyde", workers |-> n]}
    ELSE RoutePools(fx, route, n)

\* the searches and store queries the task of a route made when it ended
TaskIssued(route, room_filter, reach) ==
    IF route = "hyde" /\ reach # "query" THEN {}
    ELSE {[route |-> route, filter |-> RouteFilter(route, room_filter)]}

\* enabled_routes = sum([...]); the routes submitted to the executor
EnabledRoutes(flags) == {r \in Routes : flags[r]}

\* sum([enable_vector, enable_reverse, enable_summary]) is non-zero
NeedsEmbedding(flags) == flags["vector"] \/ flags["reverse"] \/ flags["summary"]

\* timing of the routes that are switched off
DefaultTimingKeys(flags) == {r \in Routes : ~flags[r]}

(* Inputs of retrieve *)

\* the enable_* flags: all routes, none, one route alone, BM25 with vector
RouteFlags ==
    {[r \in Routes |-> TRUE], [r \in Routes |-> FALSE],
     [r \in Routes |-> r \in {"bm25", "vector"}]}
    \cup {[r \in Routes |-> r = one] : one \in Routes}

WeightLists == {<<10>>, <<6, 4>>}
FinalTopks == {1, 3}

\* room_type and fuzzy_room_type as detect can return them
RoomInputs ==
    {[room_type |-> JNull, fuzzy_room_type |-> JNull],
     [room_type |-> JStr("GardenKing"), fuzzy_room_type |-> JStr("King")],
     [room_type |-> JStr(""), fuzzy_room_type |-> JStr("King")]}

IdleRetrieve == [pc |-> "none"]

RetrieveStart ==
    [pc : {"start"}, flags : RouteFlags, weights : WeightLists,
     fx : Fixtures, final_topk : FinalTopks, embedded : {FALSE},
     room : RoomInputs, room_filter : {NoFilter}, issued : {{}}, pools : {{}},
     pending : {{}}, failed : {{}}, timing : {{}},
     comment_results : {<<>>}, route_results : {<<>>}, summary_results : {<<>>},
     comments : {<<>>}]

\* retrieve up to the fan-out: the batch embedding when a route needs it,
\* the room filter, the test of enabled_routes, the submission of one task
\* per enabled route.
RStart ==
    /\ rcall.pc = "start"
    /\ \E embedOk \in BOOLEAN :
          IF NeedsEmbedding(rcall.flags) /\ ~embedOk
          THEN rcall' = [rcall EXCEPT !.pc = "raised", !.embedded = TRUE]
          ELSE IF EnabledRoutes(rcall.flags) = {}
          THEN rcall' = [rcall EXCEPT !.pc = "raised"]
          ELSE rcall' = [rcall EXCEPT !.pc = "gather",
                                      !.embedded = NeedsEmbedding(rcall.flags),
                                      !.room_filter =
                                          RoomFilter(rcall.room.room_type,
                                                     rcall.room.fuzzy_room_type),
                                      !.pending = EnabledRoutes(rcall.flags),
                                      !.pools =
                                          {[pool |-> "routes",
                                            workers |-> Cardinality(EnabledRoutes(rcall.flags))]},
                                      !.route_results = [r \in {} |-> <<>>]]
    /\ UNCHANGED <<bridgeVars, icall, qcall, kcall, xcall, scall>>

\* One iteration of `for future in as_completed(futures)` for a route whose
\* task returned: future.result() gives its hits and its latency.
RGather(route) ==
    /\ rcall.pc = "gather"
    /\ route \in rcall.pending
    /\ \A p \in RoutePools(rcall.fx, route, Len(rcall.weights)) : ~PoolRaises(p.workers)
    /\ LET n == Len(rcall.weights)
       IN  \E order \in Perms(n), horders \in HypothesisOrders(rcall.fx, n) :
             LET hits == IF route = "hyde" THEN HydeHits(rcall.fx, n, order, horders)
                         ELSE IF route = "summary" THEN <<>>
                         ELSE RouteHits(rcall.fx, route, n, order)
             IN  rcall' =
                   [rcall EXCEPT
                      !.pending = @ \ {route},
                      !.timing = @ \cup {route},
                      !.pools = @ \cup RoutePools(rcall.fx, route, n),
                      !.issued = @ \cup {[route |-> route,
                                          filter |-> RouteFilter(route, rcall.room_filter)]},
                      !.summary_results =
                          IF route = "summary" THEN SummaryHits(rcall.fx, n) ELSE @,
                      !.comment_results = IF route = "summary" THEN @ ELSE @ \o hits,
                      !.route_results =
                          IF route = "summary" THEN @
                          ELSE [r \in DOMAIN @ \cup {route} |->
                                   IF r = route THEN hits ELSE @[r]]]
    /\ UNCHANGED <<bridgeVars, icall, qcall, kcall, xcall, scall>>

\* One iteration of `for future in as_completed(futures)` for a route whose
\* task raised, because a service call failed or because a pool could not
\* be created: future.result() raises again, the with block waits for the
\* tasks not yet collected, which have asked for their pools and made their
\* queries by then, and the exception leaves retrieve.
RGatherFailed(route) ==
    /\ rcall.pc = "gather"
    /\ route \in rcall.pending
    /\ \E reach \in HydeReaches(rcall.fx) :
          rcall' = [rcall EXCEPT
                      !.pc = "raised", !.failed = @ \cup {route},
                      !.pending = {},
                      !.pools = @ \cup UNION {TaskPools(rcall.fx, r, Len(rcall.weights), reach) :
                                                 r \in rcall.pending},
                      !.issued = @ \cup UNION {TaskIssued(r, rcall.room_filter, reach) :
                                                  r \in rcall.pending}]
    /\ UNCHANGED <<bridgeVars, icall, qcall, kcall, xcall, scall>>

\* retrieve after the fan-out: default timings, RRF fusion, sort, the
\* candidates; it returns.
RFuse ==
    /\ rcall.pc = "gather"
    /\ rcall.pending = {}
    /\ rcall' = [rcall EXCEPT
                   !.pc = "returned",
                   !.timing = @ \cup DefaultTimingKeys(rcall.flags),
                   !.comments = FinalComments(rcall.comment_results, rcall.route_results,
                                              rcall.weights, rcall.final_topk)]
    /\ UNCHANGED <<bridgeVars, icall, qcall, kcall, xcall, scall>>

---------------------------------------------------------------------------
(* MultiFactorRanker.rank *)

\* The weights of the constructor, in hundredths.
RankWeights ==
    [relevance |-> 40, quality |-> 25, length |-> 5, review |-> 5, useful |-> 5,
     recency |-> 20]

\* base_decay, implied_boost, clear_boost of the constructor, in tenths
BaseDecay == 5
ImpliedBoost == 5
ClearBoost == 5

\* half_life_days of the constructor
HalfLifeDays == 180

DecayClearBoostAlone(time_sensitivity) ==
    IF time_sensitivity = JStr("implied") THEN BaseDecay + ImpliedBoost
    ELSE IF time_sensitivity = JStr("clear") THEN BaseDecay + ClearBoost
    ELSE BaseDecay

\* decay = base_decay; += implied_boost if "implied";
\* += implied_boost + clear_boost elif "clear".  In tenths.
Decay(time_sensitivity) ==
    IF time_sensitivity = JStr("implied") THEN BaseDecay + ImpliedBoost
    ELSE IF time_sensitivity = JStr("clear") THEN BaseDecay + ImpliedBoost + ClearBoost
    ELSE BaseDecay

\* days_ago = np.maximum((today - publish_date).days, 0)
DaysAgo(days) == IF days < 0 THEN 0 ELSE days

\* relevance scores of the reranker, in tenths; an index the reranker leaves
\* out counts 0
RelevanceValues == {0, 5}

\* (today - publish_date).days of the reviews: one dated after today, one
\* a year old
ReviewDays == {-30, 365}

\* the normalised features of the comments, in tenths
FeatureValues == [quality |-> {0, 8}, length |-> {3}, review |-> {2}, useful |-> {0}]

\* np.exp(-decay * days_ago / half_life_days), a float; decay in tenths.
\* The product decay * days_ago is exact, the division rounds once.
RecencyScore(decay, days_ago) ==
    FloatExpNeg(FloatDiv(decay * days_ago, 10 * HalfLifeDays))

\* the recency scores for the decays the boosts can give and the ages of
\* the reviews, computed once
RecencyScores ==
    [decay \in {BaseDecay, BaseDecay + ImpliedBoost, BaseDecay + ClearBoost,
                BaseDecay + ImpliedBoost + ClearBoost},
     days_ago \in {DaysAgo(days) : days \in ReviewDays} |->
        RecencyScore(decay, days_ago)]

\* recency_score of one candidate
Recency(decay, days_ago) ==
    IF <<decay, days_ago>> \in DOMAIN RecencyScores THEN RecencyScores[decay, days_ago]
    ELSE RecencyScore(decay, days_ago)

\* The features of a candidate, in tenths, with its recency_score, a float.
WithRecency(c, decay) ==
    [comment_id |-> c.comment_id, quality |-> c.quality, length |-> c.length,
     review |-> c.review, useful |-> c.useful, days |-> c.days,
     recency_score |-> Recency(decay, DaysAgo(c.days))]

\* weight * feature: the weight in hundredths and the feature in tenths are
\* each the float nearest to the decimal, the product is a float
\* multiplication
WeightedFeature(weight, tenths) == FloatMul(FloatDiv(weight, 100), FloatDiv(tenths, 10))

\* the products for the weights of the constructor and the features from
\* 0.0 to 1.0, computed once
WeightedFeatures ==
    [weight \in {RankWeights[f] : f \in DOMAIN RankWeights}, tenths \in 0 .. 10 |->
        WeightedFeature(weight, tenths)]

Weighted(weight, tenths) ==
    IF <<weight, tenths>> \in DOMAIN WeightedFeatures THEN WeightedFeatures[weight, tenths]
    ELSE WeightedFeature(weight, tenths)

\* final_score, a float: the six products added from left to right.  The
\* features are in tenths (norm_quality = quality_score / 10, the other
\* norms as the code computes them from the metadata), rel is the
\* reranker's score in tenths.
WeightedSum(rel, quality, length, review, useful, recency_score) ==
    FloatAdd(FloatAdd(FloatAdd(FloatAdd(FloatAdd(
        Weighted(RankWeights.relevance, rel),
        Weighted(RankWeights.quality, quality)),
        Weighted(RankWeights.length, length)),
        Weighted(RankWeights.review, review)),
        Weighted(RankWeights.useful, useful)),
        FloatMul(FloatDiv(RankWeights.recency, 100), recency_score))

\* the final scores for the relevance scores, features and recency scores
\* of the comments here, computed once
WeightedSums ==
    [rel \in RelevanceValues, quality \in FeatureValues.quality,
     length \in FeatureValues.length, review \in FeatureValues.review,
     useful \in FeatureValues.useful,
     recency_score \in {RecencyScores[k] : k \in DOMAIN RecencyScores} |->
        WeightedSum(rel, quality, length, review, useful, recency_score)]

FinalScore(c, rel) ==
    IF <<rel, c.quality, c.length, c.review, c.useful, c.recency_score>> \in DOMAIN WeightedSums
    THEN WeightedSums[rel, c.quality, c.length, c.review, c.useful, c.recency_score]
    ELSE WeightedSum(rel, c.quality, c.length, c.review, c.useful, c.recency_score)

RelevanceScoreMissingOne(relevance_map, n) ==
    [i \in 1 .. n |-> IF i \in DOMAIN relevance_map THEN relevance_map[i] ELSE 10]

\* relevance_score = [relevance_map.get(i, 0) for i in range(len(candidates))],
\* in tenths; indices count from 1 here.
RelevanceScore(relevance_map, n) ==
    [i \in 1 .. n |-> IF i \in DOMAIN relevance_map THEN relevance_map[i] ELSE 0]

\* np.argsort(scores)[::-1]: the indices by descending score.  The default
\* kind of argsort is not stable, so indices of equal score come in any order.
ArgsortDesc(scores) ==
    {p \in Perms(Len(scores)) :
        \A i, j \in 1 .. Len(scores) : i < j => scores[p[i]] >= scores[p[j]]}

\* the same for an array of floats
ArgsortDescFloat(scores) ==
    {p \in Perms(Len(scores)) :
        \A i, j \in 1 .. Len(scores) : i < j => ~FloatLess(scores[p[i]], scores[p[j]])}

\* rerank_rank[rerank_sorted_index] = arange(1, n + 1)
RerankRank(rorder, idx) == CHOOSE k \in 1 .. Len(rorder) : rorder[k] = idx

\* rank, step 4: the results built from sorted_index[:topk]; candidates are
\* the candidates with their features.
RankResults(candidates, rel, order, rorder, topk) ==
    [k \in 1 .. Len(Take(order, topk)) |->
        [comment_id |-> candidates[order[k]].comment_id,
         rerank_score |-> rel[order[k]],
         rerank_rank |-> RerankRank(rorder, order[k]),
         final_score |-> FinalScore(candidates[order[k]], rel[order[k]]),
         final_rank |-> k,
         recency |-> candidates[order[k]].recency_score]]

(* Inputs of rank *)

CommentIds == {"a", "b", "c"}

\* lists of pairwise distinct comment ids
IdLists ==
    {ids \in SeqsUpTo(CommentIds, Cardinality(CommentIds)) :
        \A i, j \in 1 .. Len(ids) : ids[i] = ids[j] => i = j}

\* time_sensitivity as detect returns it
RankSensitivities == {JNull, JStr("implied"), JStr("clear")}

\* the candidates of a list of ids, with their normalised features and the
\* age of the review
CandidatesOf(ids) ==
    {cs \in [1 .. Len(ids) -> [comment_id : CommentIds, quality : FeatureValues.quality,
                               length : FeatureValues.length, review : FeatureValues.review,
                               useful : FeatureValues.useful, days : ReviewDays]] :
        \A k \in 1 .. Len(ids) : cs[k].comment_id = ids[k]}

\* answers of the rerank service for n documents: a score for some of the
\* indices
RelevanceMaps(n) ==
    UNION {[present -> RelevanceValues \ {0}] : present \in SUBSET (1 .. n)}

RankTopks == {1, 2, 3}

RankStart ==
    UNION {[pc : {"start"}, candidates : CandidatesOf(ids), topk : RankTopks,
            time_sensitivity : RankSensitivities, decay : {0},
            relevance_map : {<<>>}, rel : {<<>>}, result : {<<>>}] : ids \in IdLists}

\* rank, steps 1: the early return on no candidates, else the reranker call,
\* which raises when the service fails.
KRerank ==
    /\ kcall.pc = "start"
    /\ IF kcall.candidates = <<>>
       THEN kcall' = [kcall EXCEPT !.pc = "returned"]
       ELSE \E ok \in BOOLEAN, relevance_map \in RelevanceMaps(Len(kcall.candidates)) :
               IF ok THEN kcall' = [kcall EXCEPT !.pc = "scoring",
                                                 !.relevance_map = relevance_map]
               ELSE kcall' = [kcall EXCEPT !.pc = "raised"]
    /\ UNCHANGED <<bridgeVars, icall, rcall, qcall, xcall, scall>>

\* rank, steps 2 to 4: the scores, the two argsorts, the results.
KScore ==
    /\ kcall.pc = "scoring"
    /\ LET n == Len(kcall.candidates)
           rel == RelevanceScore(kcall.relevance_map, n)
           decay == Decay(kcall.time_sensitivity)
           scored == [k \in 1 .. n |-> WithRecency(kcall.candidates[k], decay)]
           final == [k \in 1 .. n |-> FinalScore(scored[k], rel[k])]
       IN  \E order \in ArgsortDescFloat(final), rorder \in ArgsortDesc(rel) :
              kcall' = [kcall EXCEPT
                          !.pc = "returned",
                          !.rel = rel,
                          !.decay = decay,
                          !.result = RankResults(scored, rel, order, rorder, kcall.topk)]
    /\ UNCHANGED <<bridgeVars, icall, rcall, qcall, xcall, scall>>

---------------------------------------------------------------------------
(* HotelReviewRAG.query, called by the chat handler without generation
   (rag-service) and directly (RAG/lib.py) *)

\* Keyword arguments the copy of query in RAG/lib.py passes to recognize.
LibRecognizeCallKeywords == {}

\* The call of recognize in query: the copy of rag-service passes
\* history=history, the copy of RAG/lib.py passes the query alone.
RecognizeCallIn(via, answer) ==
    IF BindsKeywords(IF via = "lib" THEN LibRecognizeCallKeywords
                     ELSE RecognizeCallKeywords, {}, RecognizeParams)
    THEN recognize(answer)
    ELSE "raise"

\* Keyword parameters of HotelReviewRAG.query.
NeedsIntentsAlways(need) == TRUE

\* `if need_retrieval:` before detection and expansion
NeedsIntents(need) == need = "true"

\* `if not need_retrieval:` the direct answer
DirectAnswer(need) == need # "true"

QueryParams == QueryStreamParams \cup {"enable_generation", "print_response"}

\* Keywords the chat handler writes out itself in the call of query.
QueryCallKeywords == {"enable_hyde", "enable_generation", "print_response"}

\* request.query is empty or blank: not request.query or not request.query.strip()
BlankQuery(text) == text \in {"", " "}

\* The user query as a sub-query text; the sub-queries of an expansion are
\* numbered from 1.
UserQuery == 0

IdentityWeightHalf == 10 \div 2

\* the weight 1.0 of the substituted sub-query, in tenths
IdentityWeight == 10

\* rewritten_queries = intent_expansion_result if intent_expansion_result
\*                     else [{'query': user_query, 'weight': 1.0}]
RewrittenQueries(expansion) ==
    IF ~expansion.none /\ expansion.queries # <<>>
    THEN expansion.queries
    ELSE <<[query |-> UserQuery, weight |-> IdentityWeight]>>

UnrankedCapRetrievalTopk == "retrieval_topk"

\* the option that caps the retrieval when ranking is disabled
UnrankedCap == "ranking_topk"

\* final_topk_for_retrieval
FinalTopkForRetrieval(q) ==
    IF q.enable_ranking THEN q.retrieval_topk ELSE q[UnrankedCap]

\* The routes query enables: the chat handler passes enable_hyde=False.
QueryFlags(q) ==
    IF q.via = "chat" THEN [q.flags EXCEPT !["hyde"] = FALSE] ELSE q.flags

InjectiveSeqs(S) ==
    {s \in [1 .. Cardinality(S) -> S] : \A i, j \in 1 .. Cardinality(S) : s[i] = s[j] => i = j}

\* the hits of one route
HitsOf(fx, route, n, order, horders) ==
    IF route = "hyde" THEN HydeHits(fx, n, order, horders)
    ELSE RouteHits(fx, route, n, order)

\* retrieve, the loop over as_completed(futures) when no task raises, the
\* comment routes completing in the sequence rs: comment_results and
\* route_results after the loop.
Gathered(fx, n, rs, orders, horders) ==
    [comment_results |->
        Flatten([k \in 1 .. Len(rs) |-> HitsOf(fx, rs[k], n, orders[rs[k]], horders)]),
     route_results |->
        [r \in {rs[k] : k \in 1 .. Len(rs)} |-> HitsOf(fx, r, n, orders[r], horders)]]

\* The lists of comments a call of retrieve can return.
RetrieveReturns(fx, flags, weights, final_topk) ==
    LET n == Len(weights)
        routes == EnabledRoutes(flags) \cap CommentRoutes
    IN  IF \E r \in routes : \E p \in RoutePools(fx, r, n) : PoolRaises(p.workers) THEN {}
        ELSE
        {FinalComments(Gathered(fx, n, rs, orders, horders).comment_results,
                       Gathered(fx, n, rs, orders, horders).route_results,
                       weights, final_topk) :
            rs \in InjectiveSeqs(routes), orders \in [routes -> Perms(n)],
            horders \in HypothesisOrders(fx, n)}

\* df_comments: the normalised features of each comment and the age of the
\* review
CommentRows ==
    [id \in CommentIds |->
        [comment_id |-> id, quality |-> IF id = "a" THEN 0 ELSE 8, length |-> 3,
         review |-> 2, useful |-> 0, days |-> IF id = "c" THEN 365 ELSE 0]]

\* The lists rank can return for the comments retrieve returned.
RankReturns(comments, time_sensitivity, topk) ==
    LET n == Len(comments)
        candidates == [k \in 1 .. n |->
                          WithRecency(CommentRows[comments[k].comment_id],
                                      Decay(time_sensitivity))]
    IN  IF n = 0 THEN {<<>>}
        ELSE UNION {{RankResults(candidates, rel, order, rorder, topk) :
                        order \in ArgsortDescFloat([k \in 1 .. n |->
                                                       FinalScore(candidates[k], rel[k])]),
                        rorder \in ArgsortDesc(rel)} :
                    rel \in [1 .. n -> RelevanceValues]}

\* The call ends in an exception: the chat handler answers 500
\* (except Exception), a direct caller sees the exception.
QueryFailed(q) ==
    [q EXCEPT !.pc = "done", !.outcome = "raised",
              !.status = IF q.via = "chat" THEN 500 ELSE 0]

\* The call returns its result: the chat handler answers 200.
QueryReturned(q, refs) ==
    [q EXCEPT !.pc = "done", !.outcome = "returned", !.references = refs,
              !.status = IF q.via = "chat" THEN 200 ELSE 0]

\* query, the generation step of the retrieval branch and the result; the
\* generator is called when enable_generation.
Generated(q, refs) ==
    QueryReturned([q EXCEPT !.generator_calls = IF q.enable_generation THEN @ + 1 ELSE @],
                  refs)

(* Inputs of query *)

QueryTexts == {"", " ", "q"}

\* option names of the request besides the ones modelled by value
ExtraOptions == {{}, {"enable_hyde"}}

QueryRouteFlags ==
    {[r \in Routes |-> FALSE],
     [r \in Routes |-> r \in {"bm25", "vector"}],
     [r \in Routes |-> r \in {"vector", "reverse", "summary"}],
     [r \in Routes |-> r \in {"bm25", "hyde"}]}

RetrievalTopks == {0, 1, 3}
RankingTopks == {1, 2}

DetectResults ==
    {DetectFallback,
     [room_type |-> JStr("GardenKing"), fuzzy_room_type |-> JNull,
      time_sensitivity |-> JStr("clear")]}

ExpandResults ==
    {ExpandFallback, ExpandReturn(<<>>),
     ExpandReturn(<<[hasQuery |-> TRUE, weight |-> JNum(6)],
                    [hasQuery |-> TRUE, weight |-> JNum(4)]>>)}

QueryStart ==
    {q \in [pc : {"start"}, via : {"chat", "lib"}, text : QueryTexts, opts : ExtraOptions,
            answer : IntentAnswers, enable_expansion : BOOLEAN, enable_ranking : BOOLEAN,
            flags : QueryRouteFlags, retrieval_topk : RetrievalTopks,
            ranking_topk : RankingTopks, fx : Fixtures,
            enable_generation : BOOLEAN, need_retrieval : {"none"},
            outcome : {"none"}, status : {0}, detector_calls : {0}, expander_calls : {0},
            detection : {DetectFallback}, expansion : {ExpandFallback},
            retriever_calls : {0}, rewritten : {<<>>}, comments : {<<>>},
            ranker_calls : {0}, ranker_input : {0}, generator_calls : {0},
            references : {<<>>}] :
        /\ q.via = "lib" => (q.text = "q" /\ q.opts = {})
        /\ q.via = "chat" => ~q.enable_generation}

\* chat, up to the call of rag_system.query: the 400 for a blank query, the
\* binding of enable_hyde=False, enable_generation=False,
\* print_response=False and **options.  A direct caller calls query.
QEnter ==
    /\ qcall.pc = "start"
    /\ qcall' =
         IF qcall.via = "chat" /\ BlankQuery(qcall.text)
         THEN [qcall EXCEPT !.pc = "done", !.outcome = "rejected", !.status = 400]
         ELSE IF qcall.via = "chat"
                 /\ ~BindsKeywords(QueryCallKeywords, QueryOptions(qcall.opts), QueryParams)
         THEN QueryFailed(qcall)
         ELSE [qcall EXCEPT !.pc = "recognize"]
    /\ UNCHANGED <<bridgeVars, icall, rcall, kcall, xcall, scall>>

\* query, intent recognition: need_retrieval, and the test `if
\* need_retrieval` before detection and expansion.
QRecognize ==
    /\ qcall.pc = "recognize"
    /\ LET need == RecognizeCallIn(qcall.via, qcall.answer)
       IN  qcall' = IF need = "raise" THEN QueryFailed(qcall)
                    ELSE [qcall EXCEPT !.need_retrieval = need,
                                       !.pc = IF NeedsIntents(need) THEN "intents"
                                              ELSE "direct"]
    /\ UNCHANGED <<bridgeVars, icall, rcall, kcall, xcall, scall>>

\* query, the direct answer (`if not need_retrieval`): the generator when
\* enable_generation, which raises when the LLM fails; no references.
QDirect ==
    /\ qcall.pc = "direct"
    /\ IF qcall.enable_generation
       THEN LET called == [qcall EXCEPT !.generator_calls = @ + 1]
            IN  \/ qcall' = QueryFailed(called)
                \/ qcall' = QueryReturned(called, <<>>)
       ELSE qcall' = QueryReturned(qcall, <<>>)
    /\ UNCHANGED <<bridgeVars, icall, rcall, kcall, xcall, scall>>

\* query, intent detection and expansion: both when enable_expansion, else
\* detect alone and intent_expansion_result = None.
QIntents ==
    /\ qcall.pc = "intents"
    /\ \E det \in DetectResults, exp \in ExpandResults :
          LET next == IF DirectAnswer(qcall.need_retrieval) THEN "direct" ELSE "retrieve"
          IN  qcall' = IF qcall.enable_expansion
                       THEN [qcall EXCEPT !.pc = next, !.detection = det,
                                          !.detector_calls = @ + 1,
                                          !.expansion = exp, !.expander_calls = @ + 1]
                       ELSE [qcall EXCEPT !.pc = next, !.detection = det,
                                          !.detector_calls = @ + 1,
                                          !.expansion = ExpandFallback]
    /\ UNCHANGED <<bridgeVars, icall, rcall, kcall, xcall, scall>>

\* query, the hybrid retrieval: retrieve raises for zero enabled routes and
\* when a service call fails, else returns its candidates.
QRetrieve ==
    /\ qcall.pc = "retrieve"
    /\ LET rewritten == RewrittenQueries(qcall.expansion)
           weights == [k \in 1 .. Len(rewritten) |-> rewritten[k].weight]
           flags == QueryFlags(qcall)
           called == [qcall EXCEPT !.retriever_calls = @ + 1, !.rewritten = rewritten]
       IN  IF EnabledRoutes(flags) = {}
           THEN qcall' = QueryFailed(called)
           ELSE \/ qcall' = QueryFailed(called)
                \/ \E comments \in RetrieveReturns(qcall.fx, flags, weights,
                                                   FinalTopkForRetrieval(qcall)) :
                      qcall' = [called EXCEPT !.pc = "rank", !.comments = comments]
    /\ UNCHANGED <<bridgeVars, icall, rcall, kcall, xcall, scall>>

\* query, the ranking, the generation and the result: rank when
\* enable_ranking (it raises when the reranker fails), else the candidates
\* as they are; the generator raises when the LLM fails.
QRank ==
    /\ qcall.pc = "rank"
    /\ LET called == IF qcall.enable_ranking
                     THEN [qcall EXCEPT !.ranker_calls = @ + 1,
                                        !.ranker_input = Len(qcall.comments)]
                     ELSE qcall
       IN  \/ /\ qcall.enable_ranking
              /\ \/ qcall.comments # <<>> /\ qcall' = QueryFailed(called)
                 \/ \E ranked \in RankReturns(qcall.comments,
                                               qcall.detection.time_sensitivity,
                                               qcall.ranking_topk) :
                       qcall' = Generated(called, ranked)
           \/ ~qcall.enable_ranking /\ qcall' = Generated(qcall, qcall.comments)
           \/ /\ qcall.enable_generation
              /\ qcall' = QueryFailed([called EXCEPT !.generator_calls = @ + 1])
    /\ UNCHANGED <<bridgeVars, icall, rcall, kcall, xcall, scall>>

---------------------------------------------------------------------------
(* InvertedIndex: build, search, save, load *)

\* Exact fractions, in lowest terms: BM25 scores, k1, b, avg_doc_length.
RECURSIVE Gcd(_, _)
Gcd(a, b) == IF b = 0 THEN a ELSE Gcd(b, a % b)

Frac(n, d) == [num |-> n \div Gcd(n, d), den |-> d \div Gcd(n, d)]

FracZero == [num |-> 0, den |-> 1]

FracAdd(x, y) == Frac(x.num * y.den + y.num * x.den, x.den * y.den)

\* x < y, by integer parts and then by the reciprocals of the remainders
RECURSIVE FracLess(_, _)
FracLess(x, y) ==
    IF x.num \div x.den # y.num \div y.den THEN x.num \div x.den < y.num \div y.den
    ELSE IF x.num % x.den = 0 THEN y.num % y.den # 0
    ELSE IF y.num % y.den = 0 THEN FALSE
    ELSE FracLess([num |-> y.den, den |-> y.num % y.den],
                  [num |-> x.den, den |-> x.num % x.den])

\* token.lower()
Lower(token) == IF token = "Pool" THEN "pool" ELSE token

\* the pattern of non-letters finds nothing: the token holds letters only
LettersOnly(token) == token # "42"

\* tokenize on a text given as the tokens jieba.lcut cuts it into: the
\* lower-cased tokens that are no stopword and hold letters only.
Tokenize(text, stopwords) ==
    LET kept == SelectSeq(text, LAMBDA t : Lower(t) \notin stopwords /\ LettersOnly(t))
    IN  [k \in 1 .. Len(kept) |-> Lower(kept[k])]

\* Counter(tokens)[term]
RECURSIVE CountOf(_, _)
CountOf(tokens, term) ==
    IF tokens = <<>> THEN 0
    ELSE (IF Head(tokens) = term THEN 1 ELSE 0) + CountOf(Tail(tokens), term)

\* build: self.index[term], the postings in the order of the documents
RECURSIVE Postings(_, _, _)
Postings(documents, term, stopwords) ==
    IF documents = <<>> THEN <<>>
    ELSE LET tf == CountOf(Tokenize(Head(documents).text, stopwords), term)
         IN  (IF tf > 0 THEN <<[doc |-> Head(documents).id, tf |-> tf]>> ELSE <<>>)
             \o Postings(Tail(documents), term, stopwords)

RECURSIVE TotalLength(_, _)
TotalLength(documents, stopwords) ==
    IF documents = <<>> THEN 0
    ELSE Len(Tokenize(Head(documents).text, stopwords))
         + TotalLength(Tail(documents), stopwords)

\* the fields of an instance after __init__
FreshIndex(k1, b, stopwords) ==
    [index |-> <<>>, doc_lengths |-> <<>>, avg_doc_length |-> FracZero, num_docs |-> 0,
     documents |-> <<>>, k1 |-> k1, b |-> b, stopwords |-> stopwords]

\* build on a fresh instance
Build(inst, documents) ==
    LET terms == UNION {{Tokenize(documents[k].text, inst.stopwords)[m] :
                            m \in 1 .. Len(Tokenize(documents[k].text, inst.stopwords))} :
                        k \in 1 .. Len(documents)}
    IN  [inst EXCEPT
            !.documents = documents,
            !.num_docs = Len(documents),
            !.doc_lengths =
                [id \in {documents[k].id : k \in 1 .. Len(documents)} |->
                    LET k == CHOOSE k \in 1 .. Len(documents) : documents[k].id = id
                    IN  Len(Tokenize(documents[k].text, inst.stopwords))],
            !.index = [t \in terms |-> Postings(documents, t, inst.stopwords)],
            !.avg_doc_length =
                IF Len(documents) > 0
                THEN Frac(TotalLength(documents, inst.stopwords), Len(documents))
                ELSE FracZero]

\* search, one term_score:
\*   idf = max(0, (num_docs - df + 0.5) / (df + 0.5) + 1)
\*   norm_factor = 1 - b + b * (doc_length / avg_doc_length)
\*   idf * (tf * (k1 + 1)) / (tf + k1 * norm_factor)
TermScore(inst, term, posting) ==
    LET df == Len(inst.index[term])
        tf == posting.tf
        dl == inst.doc_lengths[posting.doc]
        a == inst.avg_doc_length.num
        c == inst.avg_doc_length.den
        kn == inst.k1.num
        kd == inst.k1.den
        bn == inst.b.num
        bd == inst.b.den
    IN  Frac((2 * inst.num_docs + 2) * tf * (kn + kd) * bd * a,
             (2 * df + 1) * (tf * kd * bd * a + kn * ((bd - bn) * a + bn * dl * c)))

\* search, the two loops: the doc ids in the order in which they enter scores
RECURSIVE ScoreKeys(_, _, _)
ScoreKeys(inst, tokens, keys) ==
    IF tokens = <<>> THEN keys
    ELSE IF Head(tokens) \notin DOMAIN inst.index
         THEN ScoreKeys(inst, Tail(tokens), keys)
         ELSE LET post == inst.index[Head(tokens)]
                  new == SelectSeq(post, LAMBDA x : \A k \in 1 .. Len(keys) : keys[k] # x.doc)
              IN  ScoreKeys(inst, Tail(tokens), keys \o [k \in 1 .. Len(new) |-> new[k].doc])

\* search, scores[doc_id]
RECURSIVE DocScore(_, _, _)
DocScore(inst, tokens, doc) ==
    IF tokens = <<>> THEN FracZero
    ELSE LET t == Head(tokens)
             hit == IF t \in DOMAIN inst.index
                    THEN SelectSeq(inst.index[t], LAMBDA x : x.doc = doc)
                    ELSE <<>>
         IN  FracAdd(IF hit = <<>> THEN FracZero ELSE TermScore(inst, t, hit[1]),
                     DocScore(inst, Tail(tokens), doc))

\* sorted(scores.items(), key=lambda x: x[1], reverse=True): a stable sort,
\* documents of equal score stay in the order of scores
RECURSIVE InsertByScore(_, _, _)
InsertByScore(sorted, item, pos) ==
    IF pos > Len(sorted) THEN Append(sorted, item)
    ELSE IF FracLess(sorted[pos].score, item.score)
         THEN SubSeq(sorted, 1, pos - 1) \o <<item>> \o SubSeq(sorted, pos, Len(sorted))
         ELSE InsertByScore(sorted, item, pos + 1)

RECURSIVE SortByScore(_, _)
SortByScore(items, acc) ==
    IF items = <<>> THEN acc
    ELSE SortByScore(Tail(items), InsertByScore(acc, Head(items), 1))

\* search
Search(inst, query, topk) ==
    LET query_tokens == Tokenize(query, inst.stopwords)
        keys == ScoreKeys(inst, query_tokens, <<>>)
    IN  IF query_tokens = <<>> THEN <<>>
        ELSE Take(SortByScore([k \in 1 .. Len(keys) |->
                                  [doc |-> keys[k],
                                   score |-> DocScore(inst, query_tokens, keys[k])]], <<>>),
                  topk)

\* the keys of the dict save pickles
SavedKeys ==
    {"index", "doc_lengths", "avg_doc_length", "num_docs", "documents", "k1", "b",
     "stopwords"}

\* the keys load subscripts, in the order of its assignments
LoadOrder == <<"index", "doc_lengths", "avg_doc_length", "num_docs", "documents", "k1", "b">>

SaveDefaultParams(inst) ==
    [kind |-> "blob", keys |-> SavedKeys,
     data |-> [inst EXCEPT !.k1 = Frac(3, 2), !.b = Frac(3, 4)]]

\* save: the file holds the pickled fields
Save(inst) == [kind |-> "blob", keys |-> SavedKeys, data |-> inst]

\* load: open and pickle.load raise for a missing or corrupt file; then the
\* fields are assigned one by one, data[key] raising KeyError at the first
\* key the blob lacks; stopwords is read with data.get('stopwords', set()).
LoadRaisesAt(file) ==
    IF file.kind # "blob" THEN 0
    ELSE IF \E k \in 1 .. Len(LoadOrder) : LoadOrder[k] \notin file.keys
         THEN CHOOSE k \in 1 .. Len(LoadOrder) :
                 /\ LoadOrder[k] \notin file.keys
                 /\ \A m \in 1 .. k - 1 : LoadOrder[m] \in file.keys
         ELSE Len(LoadOrder) + 1

LoadOk(file) == LoadRaisesAt(file) = Len(LoadOrder) + 1

Load(inst, file) ==
    LET stop == LoadRaisesAt(file)
        assigned == {LoadOrder[k] : k \in 1 .. stop - 1}
    IN  [f \in DOMAIN inst |->
            IF f \in assigned THEN file.data[f]
            ELSE IF f = "stopwords" /\ LoadOk(file)
                 THEN IF "stopwords" \in file.keys THEN file.data.stopwords ELSE {}
                 ELSE inst[f]]

(* Inputs of the index *)

IndexTexts == {<<"wifi">>, <<"wifi", "Pool">>, <<"Pool", "the">>, <<"42">>}

DocumentIdLists == {<<>>, <<"a", "b">>, <<"b", "a">>, <<"b", "c", "a">>}

DocumentSets ==
    UNION {{[k \in 1 .. Len(ids) |-> [id |-> ids[k], text |-> texts[k]]] :
               texts \in [1 .. Len(ids) -> IndexTexts]} : ids \in DocumentIdLists}

\* the constructor arguments: the defaults k1 = 1.5, b = 0.75 without a
\* stopwords file, and k1 = 2, b = 0.5 with one
IndexParams ==
    {[k1 |-> Frac(3, 2), b |-> Frac(3, 4), stopwords |-> {}],
     [k1 |-> Frac(2, 1), b |-> Frac(1, 2), stopwords |-> {"the"}]}

IndexQueries == {<<"wifi">>, <<"Pool", "wifi">>, <<"the", "42">>, <<"spa", "pool">>}

IndexTopks == {1, 2}

NoFile == [kind |-> "none", keys |-> {}, data |-> FreshIndex(Frac(3, 2), Frac(3, 4), {})]

\* what can replace the saved file: no file, bytes that do not unpickle, a
\* dict without one of the keys
DamagedFiles(file) ==
    {[file EXCEPT !.kind = "missing"], [file EXCEPT !.kind = "corrupt"]}
    \cup {[file EXCEPT !.keys = @ \ {k}] : k \in {"index", "num_docs", "stopwords"}}

IndexStart ==
    [pc : {"new"}, inst : {FreshIndex(p.k1, p.b, p.stopwords) : p \in IndexParams},
     file : {NoFile}, other : {FreshIndex(Frac(3, 2), Frac(3, 4), {})},
     before : {FreshIndex(Frac(3, 2), Frac(3, 4), {})},
     loads : {0}, load_failed : {FALSE}, intact : {FALSE},
     query : {<<>>}, topk : {0}, searches : {0}, found : {<<>>}]

\* build(documents)
XBuild ==
    /\ xcall.pc = "new"
    /\ \E documents \in DocumentSets :
          xcall' = [xcall EXCEPT !.pc = "built", !.inst = Build(xcall.inst, documents)]
    /\ UNCHANGED <<bridgeVars, icall, rcall, qcall, kcall, scall>>

\* search(query, topk) on the built index
XSearch ==
    /\ xcall.pc = "built"
    /\ \E query \in IndexQueries, topk \in IndexTopks :
          xcall' = [xcall EXCEPT !.query = query, !.topk = topk, !.searches = 1,
                                 !.found = Search(xcall.inst, query, topk)]
    /\ UNCHANGED <<bridgeVars, icall, rcall, qcall, kcall, scall>>

\* save(filepath)
XSave ==
    /\ xcall.pc = "built"
    /\ xcall' = [xcall EXCEPT !.pc = "saved", !.file = Save(xcall.inst), !.intact = TRUE]
    /\ UNCHANGED <<bridgeVars, icall, rcall, qcall, kcall, scall>>

\* the file is removed, overwritten or replaced by another blob
XDamage ==
    /\ xcall.pc = "saved"
    /\ xcall.intact
    /\ \E file \in DamagedFiles(xcall.file) :
          xcall' = [xcall EXCEPT !.file = file, !.intact = FALSE]
    /\ UNCHANGED <<bridgeVars, icall, rcall, qcall, kcall, scall>>

\* load(filepath) on another, fresh instance
XLoad ==
    /\ xcall.pc = "saved"
    /\ xcall' = [xcall EXCEPT !.pc = "loaded",
                              !.before = xcall.other,
                              !.other = Load(xcall.other, xcall.file),
                              !.loads = 1,
                              !.load_failed = ~LoadOk(xcall.file)]
    /\ UNCHANGED <<bridgeVars, icall, rcall, qcall, kcall, scall>>

---------------------------------------------------------------------------
(* Serving: the singletons HotelReviewRAG builds at startup and the threads
   that call search, retrieve and rank on them *)

\* Threads that run at the same time: the sub-query searches in the pool of
\* _route_bm25 and the requests run_in_executor hands to the thread pool.
NumThreads == 2

Threads == 1 .. NumThreads

\* The objects of the process, by name.  A singleton belongs to no thread
\* (owner 0); what a call creates belongs to the thread that runs the call.
SelfIndex == <<"inverted_index", 0>>

DfComments == <<"df_comments", 0>>

\* idf = {} of search
Idf(t) == <<"idf", t>>

ScoresOnInstance(t) == <<"scores", 0>>

\* scores = {} of search
Scores(t) == <<"scores", t>>

\* final_comment_results = [] of retrieve, the candidates of rank
FinalCommentResults(t) == <<"final_comment_results", t>>

\* ranked_results = [] of rank
RankedResults(t) == <<"ranked_results", t>>

Singletons(store) == {n \in DOMAIN store : n[2] = 0}

\* name = value: the name is bound to a new object
Bind(store, name, value) ==
    [n \in DOMAIN store \cup {name} |-> IF n = name THEN value ELSE store[n]]

\* the call of thread t returns: what it created is dropped
Release(store, t) == [n \in {m \in DOMAIN store : m[2] # t} |-> store[n]]

\* x * y
FracMul(x, y) == Frac(x.num * y.num, x.den * y.den)

\* max(0, x)
FracMax0(x) == IF FracLess(x, FracZero) THEN FracZero ELSE x

\* search, the idf loop: idf[term] for the query terms the index holds,
\*   max(0, (num_docs - df + 0.5) / (df + 0.5) + 1)
IdfOf(inst, query_tokens) ==
    [term \in {query_tokens[k] : k \in 1 .. Len(query_tokens)} \cap DOMAIN inst.index |->
        FracMax0(FracAdd(Frac(2 * (inst.num_docs - Len(inst.index[term])) + 1,
                              2 * Len(inst.index[term]) + 1),
                         Frac(1, 1)))]

\* search, term_score of one posting with the idf computed before:
\*   norm_factor = 1 - b + b * (doc_length / avg_doc_length)
\*   idf[term] * (tf * (k1 + 1)) / (tf + k1 * norm_factor)
TermScoreWith(idf, inst, posting) ==
    FracMul(idf,
            Frac(posting.tf * (inst.k1.num + inst.k1.den) * inst.b.den
                     * inst.avg_doc_length.num,
                 posting.tf * inst.k1.den * inst.b.den * inst.avg_doc_length.num
                     + inst.k1.num
                         * ((inst.b.den - inst.b.num) * inst.avg_doc_length.num
                            + inst.b.num * inst.doc_lengths[posting.doc]
                                * inst.avg_doc_length.den)))

\* scores[doc_id] = scores.get(doc_id, 0) + term_score: a new key enters the
\* dict last
ScoresAdd(scores, doc, term_score) ==
    IF \E k \in 1 .. Len(scores) : scores[k].doc = doc
    THEN [k \in 1 .. Len(scores) |->
             IF scores[k].doc = doc
             THEN [doc |-> doc, score |-> FracAdd(scores[k].score, term_score)]
             ELSE scores[k]]
    ELSE Append(scores, [doc |-> doc, score |-> FracAdd(FracZero, term_score)])

\* search, the inner loop over self.index[term].items()
RECURSIVE ScoreTerm(_, _, _, _)
ScoreTerm(scores, postings, idf, inst) ==
    IF postings = <<>> THEN scores
    ELSE ScoreTerm(ScoresAdd(scores, Head(postings).doc,
                             TermScoreWith(idf, inst, Head(postings))),
                   Tail(postings), idf, inst)

\* retrieve, the loop that builds final_comment_results: the row
\* df_comments.loc[doc_id] of each comment found
RowsOf(df_comments, found) ==
    [k \in 1 .. Len(found) |-> df_comments[found[k].doc]]

(* Inputs of serving *)

\* the corpora the pickled index was built from
ServeDocuments ==
    [stopwords \in {p.stopwords : p \in IndexParams} |->
        IF stopwords = {}
        THEN <<[id |-> "a", text |-> <<"wifi">>], [id |-> "b", text |-> <<"wifi", "Pool">>]>>
        ELSE <<[id |-> "b", text |-> <<"Pool", "the">>], [id |-> "c", text |-> <<"wifi">>],
               [id |-> "a", text |-> <<"wifi", "Pool">>]>>]

\* inverted_index.pkl as save wrote it: built by an instance with the
\* default parameters or by one with a stopwords file
SavedIndexes ==
    {Save(Build(FreshIndex(p.k1, p.b, p.stopwords), ServeDocuments[p.stopwords])) :
        p \in IndexParams}

\* inverted_index.pkl at startup: as saved, missing, corrupt or without a key
ServeFiles == SavedIndexes \cup UNION {DamagedFiles(file) : file \in SavedIndexes}

ServeQueries == {<<"wifi">>, <<"Pool", "wifi">>, <<"the", "42">>}

\* the arguments of query every request passes: search returns the best
\* route_topk, retrieve the best retrieval_topk of them, rank the best
\* ranking_topk
ServeTopks == [route_topk |-> 2, retrieval_topk |-> 2, ranking_topk |-> 1]

IdleThread ==
    [pc |-> "idle", query |-> <<>>, query_tokens |-> <<>>, next |-> 0, found |-> <<>>,
     relevance_map |-> <<>>]

\* HotelReviewRAG.__init__ after `self.inverted_index = InvertedIndex()`:
\* the instance holds the defaults of its constructor and no thread runs
ServeStart ==
    [pc : {"new"}, file : ServeFiles,
     store : {[n \in {SelfIndex} |-> FreshIndex(Frac(3, 2), Frac(3, 4), {})]},
     thread : {[t \in Threads |-> IdleThread]}]

\* startup: self.inverted_index.load(...), then df_comments, fetched with
\* get_all_comments_from_insforge, and the other singletons.  The fetch
\* raises when the database is not configured or answers a status other
\* than 200 and 206; df_comments is then never assigned.  An exception of
\* load or of the fetch leaves the constructor, startup catches it and
\* rag_system stays None: chat answers 503 from then on.
VLoad ==
    /\ scall.pc = "new"
    /\ IF LoadOk(scall.file)
       THEN \E fetched \in BOOLEAN :
               IF fetched
               THEN scall' = [scall EXCEPT
                                !.pc = "ready",
                                !.store = Bind(Bind(@, SelfIndex,
                                                    Load(@[SelfIndex], scall.file)),
                                               DfComments, CommentRows)]
               ELSE scall' = [scall EXCEPT
                                !.pc = "failed",
                                !.store = Bind(@, SelfIndex, Load(@[SelfIndex], scall.file))]
       ELSE scall' = [scall EXCEPT
                        !.pc = "failed",
                        !.store = Bind(@, SelfIndex, Load(@[SelfIndex], scall.file))]
    /\ UNCHANGED <<bridgeVars, icall, rcall, qcall, kcall, xcall>>

\* a request arrives; search(query, topk), the tokens:
\* `if not query_tokens: return []`
VSearch(t) ==
    /\ scall.pc = "ready"
    /\ scall.thread[t].pc = "idle"
    /\ \E query \in ServeQueries :
          LET query_tokens == Tokenize(query, scall.store[SelfIndex].stopwords)
          IN  scall' = [scall EXCEPT
                          !.thread[t] =
                              [@ EXCEPT !.pc = IF query_tokens = <<>> THEN "found" ELSE "idf",
                                        !.query = query,
                                        !.query_tokens = query_tokens]]
    /\ UNCHANGED <<bridgeVars, icall, rcall, qcall, kcall, xcall>>

\* search, `idf = {}` and its loop, then `scores = {}`
VIdf(t) ==
    /\ scall.pc = "ready"
    /\ scall.thread[t].pc = "idf"
    /\ scall' = [scall EXCEPT
                    !.store = Bind(Bind(@, Idf(t), IdfOf(@[SelfIndex],
                                                         scall.thread[t].query_tokens)),
                                   Scores(t), <<>>),
                    !.thread[t] = [@ EXCEPT !.pc = "score", !.next = 1]]
    /\ UNCHANGED <<bridgeVars, icall, rcall, qcall, kcall, xcall>>

\* search, one round of `for term in query_tokens`
VScore(t) ==
    /\ scall.pc = "ready"
    /\ scall.thread[t].pc = "score"
    /\ scall.thread[t].next <= Len(scall.thread[t].query_tokens)
    /\ LET term == scall.thread[t].query_tokens[scall.thread[t].next]
           inst == scall.store[SelfIndex]
       IN  scall' = [scall EXCEPT
                       !.store = IF term \notin DOMAIN inst.index THEN @
                                 ELSE Bind(@, Scores(t),
                                           ScoreTerm(@[Scores(t)], inst.index[term],
                                                     @[Idf(t)][term], inst)),
                       !.thread[t] = [@ EXCEPT !.next = @ + 1]]
    /\ UNCHANGED <<bridgeVars, icall, rcall, qcall, kcall, xcall>>

\* search, sorted(scores.items(), ...)[:topk] and the return
VSort(t) ==
    /\ scall.pc = "ready"
    /\ scall.thread[t].pc = "score"
    /\ scall.thread[t].next > Len(scall.thread[t].query_tokens)
    /\ scall' = [scall EXCEPT
                    !.thread[t] =
                        [@ EXCEPT !.pc = "found",
                                  !.found = Take(SortByScore(scall.store[Scores(t)], <<>>),
                                                 ServeTopks.route_topk)]]
    /\ UNCHANGED <<bridgeVars, icall, rcall, qcall, kcall, xcall>>

\* retrieve with the bm25 route alone and one sub-query: the fused list is
\* the list search found, and final_comment_results holds a new record for
\* each of its first final_topk comments, read from df_comments
VRows(t) ==
    /\ scall.pc = "ready"
    /\ scall.thread[t].pc = "found"
    /\ scall' = [scall EXCEPT
                    !.store = Bind(@, FinalCommentResults(t),
                                   RowsOf(@[DfComments],
                                          Take(scall.thread[t].found,
                                               ServeTopks.retrieval_topk))),
                    !.thread[t] = [@ EXCEPT !.pc = "rerank"]]
    /\ UNCHANGED <<bridgeVars, icall, rcall, qcall, kcall, xcall>>

\* rank, step 1: the early return on no candidates, else the reranker call,
\* which raises when the service answers a status other than 200: rank ends
\* with the exception and builds no ranked_results.
VRerank(t) ==
    /\ scall.pc = "ready"
    /\ scall.thread[t].pc = "rerank"
    /\ IF scall.store[FinalCommentResults(t)] = <<>>
       THEN scall' = [scall EXCEPT !.store = Bind(@, RankedResults(t), <<>>),
                                   !.thread[t] = [@ EXCEPT !.pc = "done"]]
       ELSE \E ok \in BOOLEAN,
               relevance_map \in RelevanceMaps(Len(scall.store[FinalCommentResults(t)])) :
               IF ok
               THEN scall' = [scall EXCEPT
                                !.thread[t] = [@ EXCEPT !.pc = "rank",
                                                        !.relevance_map = relevance_map]]
               ELSE scall' = [scall EXCEPT !.thread[t] = [@ EXCEPT !.pc = "raised"]]
    /\ UNCHANGED <<bridgeVars, icall, rcall, qcall, kcall, xcall>>

\* the lists rank builds from candidates and the reranker's answer
Ranked(candidates, relevance_map, topk) ==
    LET n == Len(candidates)
        rel == RelevanceScore(relevance_map, n)
        scored == [k \in 1 .. n |-> WithRecency(candidates[k], Decay(JNull))]
    IN  {RankResults(scored, rel, order, rorder, topk) :
            order \in ArgsortDescFloat([k \in 1 .. n |-> FinalScore(scored[k], rel[k])]),
            rorder \in ArgsortDesc(rel)}

\* rank, steps 2 to 4: ranked_results holds a new record for each of the
\* best topk candidates
VRank(t) ==
    /\ scall.pc = "ready"
    /\ scall.thread[t].pc = "rank"
    /\ \E results \in Ranked(scall.store[FinalCommentResults(t)],
                             scall.thread[t].relevance_map, ServeTopks.ranking_topk) :
          scall' = [scall EXCEPT !.store = Bind(@, RankedResults(t), results),
                                 !.thread[t] = [@ EXCEPT !.pc = "done"]]
    /\ UNCHANGED <<bridgeVars, icall, rcall, qcall, kcall, xcall>>

\* the call returns, or the exception of the reranker ends the request,
\* and the thread is free for the next one
VReturn(t) ==
    /\ scall.pc = "ready"
    /\ scall.thread[t].pc \in {"done", "raised"}
    /\ scall' = [scall EXCEPT !.store = Release(@, t),
                              !.thread[t] = IdleThread]
    /\ UNCHANGED <<bridgeVars, icall, rcall, qcall, kcall, xcall>>

IdleQuery == [pc |-> "none"]
IdleRank == [pc |-> "none"]
IdleIndex == [pc |-> "none"]
IdleServe == [pc |-> "none"]

Init ==
    /\ BridgeInit
    /\ icall = IdleIntent
    /\ rcall = IdleRetrieve
    /\ qcall = IdleQuery
    /\ kcall = IdleRank
    /\ xcall = IdleIndex
    /\ scall = IdleServe

Next ==
    \E r \in Requests :
        \/ CStart(r)
        \/ CTake(r)
        \/ CEmpty(r)
        \/ CRegister(r)
        \/ CResume(r)
        \/ CYield(r)
        \/ CCancel(r)
        \/ PCall(r)
        \/ PPutError(r)
        \/ PWakeError(r)
        \/ PPutSentinel(r)
        \/ PWakeSentinel(r)

Spec == Init /\ [][Next]_vars

IdleBridge ==
    /\ req = [r \in Requests |-> [options |-> {}, answer |-> "RETRIEVAL"]]
    /\ ppc = [r \in Requests |-> "idle"]
    /\ cpc = [r \in Requests |-> "init"]
    /\ queue = [r \in Requests |-> <<>>]
    /\ getter = [r \in Requests |-> "none"]
    /\ held = [r \in Requests |-> "none"]
    /\ sent = [r \in Requests |-> <<>>]
    /\ enq = [r \in Requests |-> <<>>]
    /\ cancelAt = [r \in Requests |-> -1]

InitIntent ==
    /\ IdleBridge
    /\ icall = IdleIntent
    /\ rcall = IdleRetrieve
    /\ qcall = IdleQuery
    /\ kcall = IdleRank
    /\ xcall = IdleIndex
    /\ scall = IdleServe

NextIntent ==
    \/ \E fn \in IntentFunctions : IStart(fn)
    \/ IAttempt
    \/ IFallback

SpecIntent == InitIntent /\ [][NextIntent]_vars

InitRetrieve ==
    /\ IdleBridge
    /\ icall = IdleIntent
    /\ rcall \in RetrieveStart
    /\ qcall = IdleQuery
    /\ kcall = IdleRank
    /\ xcall = IdleIndex
    /\ scall = IdleServe

NextRetrieve ==
    \/ RStart
    \/ \E route \in Routes : RGather(route)
    \/ \E route \in Routes : RGatherFailed(route)
    \/ RFuse

SpecRetrieve == InitRetrieve /\ [][NextRetrieve]_vars

InitRank ==
    /\ IdleBridge
    /\ icall = IdleIntent
    /\ rcall = IdleRetrieve
    /\ qcall = IdleQuery
    /\ kcall \in RankStart
    /\ xcall = IdleIndex
    /\ scall = IdleServe

NextRank ==
    \/ KRerank
    \/ KScore

SpecRank == InitRank /\ [][NextRank]_vars

InitQuery ==
    /\ IdleBridge
    /\ icall = IdleIntent
    /\ rcall = IdleRetrieve
    /\ qcall \in QueryStart
    /\ kcall = IdleRank
    /\ xcall = IdleIndex
    /\ scall = IdleServe

NextQuery ==
    \/ QEnter
    \/ QRecognize
    \/ QDirect
    \/ QIntents
    \/ QRetrieve
    \/ QRank

SpecQuery == InitQuery /\ [][NextQuery]_vars

InitIndex ==
    /\ IdleBridge
    /\ icall = IdleIntent
    /\ rcall = IdleRetrieve
    /\ qcall = IdleQuery
    /\ kcall = IdleRank
    /\ xcall \in IndexStart
    /\ scall = IdleServe

NextIndex ==
    \/ XBuild
    \/ XSearch
    \/ XSave
    \/ XDamage
    \/ XLoad

SpecIndex == InitIndex /\ [][NextIndex]_vars

InitServe ==
    /\ IdleBridge
    /\ icall = IdleIntent
    /\ rcall = IdleRetrieve
    /\ qcall = IdleQuery
    /\ kcall = IdleRank
    /\ xcall = IdleIndex
    /\ scall \in ServeStart

NextServe ==
    \/ VLoad
    \/ \E t \in Threads :
          \/ VSearch(t)
          \/ VIdf(t)
          \/ VScore(t)
          \/ VSort(t)
          \/ VRows(t)
          \/ VRerank(t)
          \/ VRank(t)
          \/ VReturn(t)

SpecServe == InitServe /\ [][NextServe]_vars

\* The scheduler runs every thread and the event loop runs every runnable
\* coroutine; the client is free never to disconnect.
ProducerStep(r) ==
    PCall(r) \/ PPutError(r) \/ PWakeError(r) \/ PPutSentinel(r) \/ PWakeSentinel(r)

ConsumerStep(r) ==
    CStart(r) \/ CTake(r) \/ CEmpty(r) \/ CRegister(r) \/ CResume(r) \/ CYield(r)

FairSpec ==
    Spec /\ \A r \in Requests : WF_vars(ProducerStep(r)) /\ WF_vars(ConsumerStep(r))

---------------------------------------------------------------------------
(* Properties of the streaming bridge *)

\* intent references chunk+ done
MatchesRetrievalStream(s) ==
    /\ Len(s) >= 4
    /\ s[1] = "intent"
    /\ s[2] = "references"
    /\ s[Len(s)] = "done"
    /\ \A i \in 3 .. Len(s) - 1 : s[i] = "chunk"

\* chunk+ done
MatchesDirectStream(s) ==
    /\ Len(s) >= 2
    /\ s[Len(s)] = "done"
    /\ \A i \in 1 .. Len(s) - 1 : s[i] = "chunk"

\* The request reaches the recognizer and the recognizer call raises.
RecognitionFails(r) ==
    /\ BindsKeywords(StreamCallKeywords, QueryOptions(req[r].options), QueryStreamParams)
    /\ RecognizeCall(req[r].answer) = "raise"

\* C1: a streamed request without options whose intent model answers
\* RETRIEVAL delivers, when its stream has ended, the event types
\* intent, references, chunk+, done in this order.
C1_RetrievalStreamOrder ==
    \A r \in Requests :
        (cpc[r] = "done" /\ req[r].options = {} /\ req[r].answer = "RETRIEVAL")
            => MatchesRetrievalStream(sent[r])

\* C2: a streamed request without options whose intent model answers DIRECT
\* delivers, when its stream has ended, only chunk events followed by one
\* done event.
C2_DirectStreamOrder ==
    \A r \in Requests :
        (cpc[r] = "done" /\ req[r].options = {} /\ req[r].answer = "DIRECT")
            => MatchesDirectStream(sent[r])

\* no event follows an error event
ErrorIsLast(s) == \A i \in 1 .. Len(s) : s[i] = "error" => i = Len(s)

\* What is enqueued and delivered around an error event: no event follows an
\* error event, for every request; and when intent recognition fails no
\* event but one error event is enqueued or delivered.
ErrorReplacesEvents ==
    \A r \in Requests :
        /\ ErrorIsLast(Events(enq[r]))
        /\ ErrorIsLast(sent[r])
        /\ RecognitionFails(r) =>
              /\ Events(enq[r]) \in {<<>>, <<"error">>}
              /\ sent[r] \in {<<>>, <<"error">>}
              /\ (ppc[r] = "done" => enq[r] = <<"error", SENTINEL>>)
              /\ (cpc[r] = "done" => sent[r] = <<"error">>)

\* C4: when intent recognition fails in a streamed request whose client
\* stays connected, the client receives exactly one error event and no
\* intent, references, chunk or done event; and for every request, no event
\* follows an error event.
C4_ErrorDelivered ==
    /\ []ErrorReplacesEvents
    /\ \A r \in Requests :
          [](RecognitionFails(r) => <>(cpc[r] = "cancelled" \/ sent[r] = <<"error">>))

\* C5: the hand-off queue has a positive fixed capacity and never holds more
\* items than that capacity.
C5_QueueBounded ==
    \A r \in Requests :
        Len(queue[r]) > 0 => (QueueMaxsize > 0 /\ Len(queue[r]) <= QueueMaxsize)

\* C6: for every streamed request whose client stays connected, the consumer
\* loop eventually terminates, having forwarded every event enqueued before
\* the sentinel, in order, without loss or duplication.
C6_ConsumerTerminates ==
    \A r \in Requests :
        <>(\/ cpc[r] = "cancelled"
           \/ (cpc[r] = "done" /\ sent[r] = Events(enq[r])))

\* C7: once the client has disconnected, no further event is enqueued for
\* the request.
C7_NoEnqueueAfterCancel ==
    \A r \in Requests :
        cancelAt[r] >= 0 => Len(Events(enq[r])) = cancelAt[r]

---------------------------------------------------------------------------
(* Properties of detect, expand and generate *)

RECURSIVE SumWeights(_)
SumWeights(qs) == IF qs = <<>> THEN 0 ELSE Head(qs).weight + SumWeights(Tail(qs))

\* 1 to 3 sub-queries, weights in {0.2, 0.4, 0.6, 0.8, 1.0}, summing to 1
ValidSubQueries(qs) ==
    /\ Len(qs) \in 1 .. 3
    /\ \A k \in 1 .. Len(qs) : qs[k].weight \in {2, 4, 6, 8, 10}
    /\ SumWeights(qs) = 10

\* C8: a call of detect, expand or generate invokes the LLM at most twice,
\* never ends in an exception, and after two failed attempts returns the
\* all-null record, None, and the list holding the original query.
C8_BoundedRetryThenFallback ==
    /\ icall.calls <= 2
    /\ icall.status # "raised"
    /\ (icall.status = "returned" /\ icall.fails = 2) =>
          /\ icall.calls = 2
          /\ icall.fn = "detect" =>
                icall.result = [room_type |-> JNull, fuzzy_room_type |-> JNull,
                                time_sensitivity |-> JNull]
          /\ icall.fn = "expand" => icall.result.none
          /\ icall.fn = "hyde" => icall.result = <<"QUERY">>
    /\ (icall.status = "returned" /\ icall.fails < 2) => icall.calls = icall.fails + 1

C8_Witness ==
    /\ icall.fell = IntentFunctions
    /\ icall.status = "returned"
    /\ icall.fails = 2
    /\ icall.calls = 2

\* C9: the record detect returns has room_type null or an exact room type,
\* fuzzy_room_type null or a fuzzy room type, and time_sensitivity null,
\* clear or implied.
C9_DetectorClosedSets ==
    (icall.fn = "detect" /\ icall.status = "returned") =>
        /\ icall.result.room_type \in {JNull} \cup {JStr(x) : x \in ExactRoomTypes}
        /\ icall.result.fuzzy_room_type \in {JNull} \cup {JStr(x) : x \in FuzzyRoomTypes}
        /\ icall.result.time_sensitivity \in {JNull} \cup {JStr(x) : x \in TimeSensitivities}

\* C10: every non-null result of expand has 1 to 3 sub-queries, every weight
\* in {0.2, 0.4, 0.6, 0.8, 1.0} and weights summing to 1.
C10_ExpanderOutputValid ==
    (icall.fn = "expand" /\ icall.status = "returned" /\ ~icall.result.none) =>
        ValidSubQueries(icall.result.queries)

---------------------------------------------------------------------------
(* Properties of retrieve *)

\* C3: when a single route fails, retrieve does not fail: it returns, the
\* latency of the failed route is in the timing, and the hits of the other
\* enabled routes are fused.
C3_RouteFailureIsolated ==
    (rcall.pc \in {"returned", "raised"} /\ Cardinality(rcall.failed) = 1) =>
        /\ rcall.pc = "returned"
        /\ rcall.failed \subseteq rcall.timing
        /\ rcall.comments = FinalComments(rcall.comment_results, rcall.route_results,
                                          rcall.weights, rcall.final_topk)

---------------------------------------------------------------------------
(* Properties of rank *)

\* C16: rank returns at most topk candidates, ordered by final_score
\* descending, candidates of equal final_score by rerank score descending,
\* candidates equal in both by comment_id ascending (ids compared here by
\* their position in the alphabet); final_rank of the i-th candidate is i.
IdOrder == [x \in CommentIds |-> IF x = "a" THEN 1 ELSE IF x = "b" THEN 2 ELSE 3]

RankedBefore(x, y) ==
    \/ FloatLess(y.final_score, x.final_score)
    \/ /\ x.final_score = y.final_score
       /\ \/ x.rerank_score > y.rerank_score
          \/ (x.rerank_score = y.rerank_score
                /\ IdOrder[x.comment_id] < IdOrder[y.comment_id])

C16_RankerOrder ==
    kcall.pc = "returned" =>
        /\ Len(kcall.result) <= kcall.topk
        /\ \A i \in 1 .. Len(kcall.result) : kcall.result[i].final_rank = i
        /\ \A i, j \in 1 .. Len(kcall.result) :
              i < j => RankedBefore(kcall.result[i], kcall.result[j])

---------------------------------------------------------------------------
(* Properties of query *)

\* C11: with enable_expansion false the expander is never invoked, and
\* whenever the retriever is called with expansion disabled or with the null
\* fallback of the expander, it receives exactly one sub-query, the user
\* query with weight 1.0.
C11_IdentitySubQuery ==
    /\ ~qcall.enable_expansion => qcall.expander_calls = 0
    /\ (qcall.retriever_calls > 0 /\ (~qcall.enable_expansion \/ qcall.expansion.none)) =>
          qcall.rewritten = <<[query |-> UserQuery, weight |-> 10]>>

C11_Witness ==
    /\ qcall.retriever_calls = 1
    /\ ~qcall.enable_expansion
    /\ qcall.expander_calls = 0
    /\ qcall.outcome = "returned"
    /\ qcall.rewritten = <<[query |-> UserQuery, weight |-> 10]>>

\* C13: a query on the retrieval branch that returns has at most
\* ranking_topk reference comments, with pairwise distinct comment ids, with
\* ranking enabled or disabled; the ranker never receives more than
\* retrieval_topk candidates.
C13_ReferencesCapped ==
    /\ (qcall.outcome = "returned" /\ qcall.retriever_calls > 0) =>
          /\ Len(qcall.references) <= qcall.ranking_topk
          /\ \A i, j \in 1 .. Len(qcall.references) :
                qcall.references[i].comment_id = qcall.references[j].comment_id => i = j
    /\ qcall.ranker_calls > 0 => qcall.ranker_input <= qcall.retrieval_topk

C13_Witness ==
    /\ qcall.outcome = "returned"
    /\ qcall.enable_ranking
    /\ qcall.ranker_calls = 1
    /\ qcall.ranker_input = 3
    /\ qcall.retrieval_topk = 3
    /\ qcall.ranking_topk = 2
    /\ Len(qcall.references) = 2

\* C20: a chat request with a blank query or with all five routes disabled
\* is answered with a 4xx status.
C20_InvalidInputRejected ==
    (/\ qcall.via = "chat"
     /\ qcall.pc = "done"
     /\ (BlankQuery(qcall.text) \/ EnabledRoutes(QueryFlags(qcall)) = {})) =>
        qcall.status \in 400 .. 499

---------------------------------------------------------------------------
(* Further properties of retrieve *)

\* C12: a call of retrieve has one filter: room_type when room_type is set
\* (fuzzy_room_type is then ignored), else fuzzy_room_type when that is set,
\* else none; every vector, reverse and HyDE store query of the call carries
\* this filter, the BM25 search and the summary query carry none.
C12_OneRoomFilter ==
    LET rt == rcall.room.room_type
        frt == rcall.room.fuzzy_room_type
        expected == IF rt.t = "str" /\ rt.v # ""
                    THEN [field |-> "room_type", value |-> rt.v]
                    ELSE IF frt.t = "str" /\ frt.v # ""
                         THEN [field |-> "fuzzy_room_type", value |-> frt.v]
                         ELSE [field |-> "", value |-> ""]
    IN  rcall.pc \in {"gather", "returned", "raised"} =>
            \A q \in rcall.issued :
                q.filter = IF q.route \in {"vector", "reverse", "hyde"}
                           THEN expected
                           ELSE [field |-> "", value |-> ""]

C12_Witness ==
    /\ rcall.pc = "returned"
    /\ rcall.room.room_type = JStr("GardenKing")
    /\ rcall.room.fuzzy_room_type = JStr("King")
    /\ {q.route : q \in rcall.issued} = Routes
    /\ [route |-> "hyde", filter |-> [field |-> "room_type", value |-> "GardenKing"]]
          \in rcall.issued

\* The exact value of a score is kept as an integer: the weights in tenths,
\* and 1 / (60 + rank) scaled by the product of the denominators of the
\* ranks 1 to 3.
RrfScale == (RrfK + 1) * (RrfK + 2) * (RrfK + 3)

\* the sum of weight[query_idx] / (60 + rank) over the hits of a comment in
\* the results of the routes, scaled by RrfScale, weights in tenths
RECURSIVE SumOverHits(_, _, _)
SumOverHits(hits, weights, doc) ==
    IF hits = <<>> THEN 0
    ELSE (IF Head(hits).doc = doc
          THEN (weights[Head(hits).qidx + 1] * RrfScale) \div (60 + Head(hits).rank)
          ELSE 0)
         + SumOverHits(Tail(hits), weights, doc)

RECURSIVE SumOverRoutes(_, _, _, _)
SumOverRoutes(routes, route_results, weights, doc) ==
    IF routes = {} THEN 0
    ELSE LET r == CHOOSE x \in routes : TRUE
         IN  SumOverHits(route_results[r], weights, doc)
             + SumOverRoutes(routes \ {r}, route_results, weights, doc)

\* the float x is within 10^-9 of the exact score sum / (10 * RrfScale):
\* both sides of |x - sum / den| <= 10^-9 multiplied by den * 2^-e * 10^9
WithinTolerance(x, sum) ==
    LET den == BigOf(10 * RrfScale)
        scaled == BigMul(x.m, den)
        exact == BigShl(BigOf(sum), 0 - x.e)
        diff == IF BigCmp(scaled, exact) >= 0 THEN BigSub(scaled, exact)
                ELSE BigSub(exact, scaled)
    IN  BigCmp(BigMulSmall(BigMulSmall(diff, 31250), 32000), BigShl(den, 0 - x.e)) <= 0

\* C14: the rrf_score of every comment retrieve returns is the sum, over the
\* hits of the comment emitted by the BM25, vector, reverse and deduplicated
\* HyDE routes, of weight[query_idx] / (60 + rank), each hit counted once;
\* the float of the code is compared with the exact sum within 10^-9.
C14_RrfScoreFormula ==
    rcall.pc = "returned" =>
        \A k \in 1 .. Len(rcall.comments) :
            WithinTolerance(rcall.comments[k].rrf_score,
                            SumOverRoutes(DOMAIN rcall.route_results, rcall.route_results,
                                          rcall.weights, rcall.comments[k].comment_id))

\* rank 1 from BM25 for q0 (weight 0.6) and rank 2 from vector for q1 (weight
\* 0.4) give 0.6/61 + 0.4/62
C14_Witness ==
    /\ rcall.pc = "returned"
    /\ rcall.weights = <<6, 4>>
    /\ \E k \in 1 .. Len(rcall.comments) :
          /\ DOMAIN rcall.comments[k].route_ranks = {"bm25", "vector"}
          /\ rcall.comments[k].route_ranks["bm25"] =
                <<[doc |-> rcall.comments[k].comment_id, route |-> "bm25", rank |-> 1,
                   qidx |-> 0, hidx |-> 0]>>
          /\ rcall.comments[k].route_ranks["vector"] =
                <<[doc |-> rcall.comments[k].comment_id, route |-> "vector", rank |-> 2,
                   qidx |-> 1, hidx |-> 0]>>
          /\ WithinTolerance(rcall.comments[k].rrf_score, 6 * 62 * 63 + 4 * 61 * 63)
          /\ rcall.comments[k].rrf_score
                = FloatAdd(FloatMul(FloatDiv(1, 61), FloatDiv(6, 10)),
                           FloatMul(FloatDiv(1, 62), FloatDiv(4, 10)))

\* C15: retrieve returns at most final_topk candidates, by rrf_score
\* descending and, among equal scores, by comment_id ascending; the i-th has
\* rrf_rank i; no fused comment left out scores higher than a returned one.
C15_FusedOrder ==
    rcall.pc = "returned" =>
        /\ Len(rcall.comments) <= rcall.final_topk
        /\ \A i \in 1 .. Len(rcall.comments) : rcall.comments[i].rrf_rank = i
        /\ \A i, j \in 1 .. Len(rcall.comments) :
              i < j =>
                \/ FloatLess(rcall.comments[j].rrf_score, rcall.comments[i].rrf_score)
                \/ /\ rcall.comments[i].rrf_score = rcall.comments[j].rrf_score
                   /\ IdOrder[rcall.comments[i].comment_id]
                         < IdOrder[rcall.comments[j].comment_id]
        /\ \A d \in {rcall.comment_results[h].doc : h \in 1 .. Len(rcall.comment_results)} :
              (\A i \in 1 .. Len(rcall.comments) : rcall.comments[i].comment_id # d) =>
                 \A i \in 1 .. Len(rcall.comments) :
                     ~FloatLess(rcall.comments[i].rrf_score,
                                RrfScore(rcall.comment_results, rcall.weights, d))

---------------------------------------------------------------------------
(* Properties of the index *)

\* the documents with a posting under a token of the query
Matching(inst, query) ==
    {p.doc : p \in UNION {{inst.index[t][k] : k \in 1 .. Len(inst.index[t])} :
                             t \in {x \in DOMAIN inst.index :
                                       \E m \in 1 .. Len(Tokenize(query, inst.stopwords)) :
                                           Tokenize(query, inst.stopwords)[m] = x}}}

\* C17: search returns at most K pairs, each document at most once, by score
\* descending and, among equal scores, by comment_id ascending; no matching
\* document left out scores higher than a returned one; a query without
\* tokens after filtering returns the empty list.
C17_SearchOrder ==
    xcall.searches > 0 =>
        LET found == xcall.found
            tokens == Tokenize(xcall.query, xcall.inst.stopwords)
        IN  /\ Len(found) <= xcall.topk
            /\ \A i, j \in 1 .. Len(found) : found[i].doc = found[j].doc => i = j
            /\ \A i, j \in 1 .. Len(found) :
                  i < j => \/ FracLess(found[j].score, found[i].score)
                           \/ /\ found[i].score = found[j].score
                              /\ IdOrder[found[i].doc] < IdOrder[found[j].doc]
            /\ \A d \in Matching(xcall.inst, xcall.query) :
                  (\A i \in 1 .. Len(found) : found[i].doc # d) =>
                     \A i \in 1 .. Len(found) :
                        ~FracLess(found[i].score, DocScore(xcall.inst, tokens, d))
            /\ tokens = <<>> => found = <<>>

\* C18: when load fails, every field of the instance is as it was before the
\* call.
C18_LoadAtomic ==
    (xcall.loads > 0 /\ xcall.load_failed) => xcall.other = xcall.before

\* C19: an index saved and loaded into a fresh instance returns, for every
\* query and topk, the same search result list as the original.
C19_SaveLoadRoundTrip ==
    (xcall.loads > 0 /\ xcall.intact) =>
        /\ ~xcall.load_failed
        /\ \A query \in IndexQueries, topk \in IndexTopks :
              Search(xcall.other, query, topk) = Search(xcall.inst, query, topk)

C19_Witness ==
    /\ xcall.loads > 0
    /\ xcall.intact
    /\ xcall.inst.k1 = Frac(2, 1)
    /\ Len(Search(xcall.other, <<"Pool", "wifi">>, 2)) = 2
    /\ Search(xcall.other, <<"Pool", "wifi">>, 2)[1].score
          # Search(xcall.other, <<"Pool", "wifi">>, 2)[2].score

---------------------------------------------------------------------------
(* Properties of the chat options *)

\* C21: a chat request with a non-blank query whose options hold only
\* recognized keys, enable_hyde among them, is bound to the parameters of
\* query and goes on to intent recognition: it does not end in an error
\* response at the call.
C21_RecognizedOptionsAccepted ==
    [][(/\ qcall.pc = "start"
        /\ qcall.via = "chat"
        /\ ~BlankQuery(qcall.text)
        /\ qcall.opts \subseteq QueryStreamParams) => qcall'.pc = "recognize"]_vars

---------------------------------------------------------------------------
(* Further properties of rank *)

\* C22: the decay rank uses is 0.5 without time sensitivity, 1.0 for
\* `implied` and 1.5 for `clear`; the recency of every returned candidate
\* is the exponential for that decay, and for a review of positive age the
\* recency under `clear` is strictly below the one under `implied`, which
\* is strictly below the one without time sensitivity.
C22_DecayBySensitivity ==
    (kcall.pc = "returned" /\ kcall.candidates # <<>>) =>
        /\ kcall.decay = IF kcall.time_sensitivity = JStr("clear") THEN 15
                         ELSE IF kcall.time_sensitivity = JStr("implied") THEN 10
                         ELSE 5
        /\ \A k \in 1 .. Len(kcall.result) :
              \E i \in 1 .. Len(kcall.candidates) :
                  /\ kcall.candidates[i].comment_id = kcall.result[k].comment_id
                  /\ kcall.result[k].recency
                        = Recency(kcall.decay,
                                  IF kcall.candidates[i].days < 0 THEN 0
                                  ELSE kcall.candidates[i].days)
        /\ \A i \in 1 .. Len(kcall.candidates) :
              kcall.candidates[i].days > 0 =>
                  /\ FloatLess(Recency(Decay(JStr("clear")), kcall.candidates[i].days),
                               Recency(Decay(JStr("implied")), kcall.candidates[i].days))
                  /\ FloatLess(Recency(Decay(JStr("implied")), kcall.candidates[i].days),
                               Recency(Decay(JNull), kcall.candidates[i].days))

\* a review 365 days old ranked under `clear`: decay 1.5, recency between
\* 0.047 and 0.048
C22_Witness ==
    /\ kcall.pc = "returned"
    /\ kcall.time_sensitivity = JStr("clear")
    /\ kcall.decay = 15
    /\ \E k \in 1 .. Len(kcall.result) :
          /\ FloatLess(FloatDiv(47, 1000), kcall.result[k].recency)
          /\ FloatLess(kcall.result[k].recency, FloatDiv(48, 1000))
          /\ \E i \in 1 .. Len(kcall.candidates) :
                /\ kcall.candidates[i].comment_id = kcall.result[k].comment_id
                /\ kcall.candidates[i].days = 365

\* the number of candidates whose relevance is above (strict) or not below
\* the relevance x, over the whole input of the call
NumAbove(x, strict) ==
    Cardinality({j \in 1 .. Len(kcall.candidates) :
                    IF strict THEN kcall.rel[j] > x ELSE kcall.rel[j] >= x})

\* C27: the rerank_rank of a returned candidate is its position among all
\* candidates of the call by relevance descending, an index the rerank
\* service left out counting relevance 0: it lies above the number of
\* candidates of greater relevance and within the number of candidates of
\* equal or greater relevance, whatever topk and final_rank are; returned
\* candidates have distinct rerank_rank values, all of 1..N when all N
\* candidates are returned.
C27_RerankRankOverAll ==
    (kcall.pc = "returned" /\ kcall.candidates # <<>>) =>
        LET n == Len(kcall.candidates)
            IndexOf(k) == CHOOSE i \in 1 .. n :
                              kcall.candidates[i].comment_id = kcall.result[k].comment_id
            Relevance(i) == IF i \in DOMAIN kcall.relevance_map
                            THEN kcall.relevance_map[i] ELSE 0
        IN  /\ \A k \in 1 .. Len(kcall.result) :
                  /\ kcall.result[k].rerank_score = Relevance(IndexOf(k))
                  /\ kcall.result[k].rerank_rank > NumAbove(Relevance(IndexOf(k)), TRUE)
                  /\ kcall.result[k].rerank_rank <= NumAbove(Relevance(IndexOf(k)), FALSE)
            /\ \A k, l \in 1 .. Len(kcall.result) :
                  kcall.result[k].rerank_rank = kcall.result[l].rerank_rank => k = l
            /\ Len(kcall.result) = n =>
                  {kcall.result[k].rerank_rank : k \in 1 .. n} = 1 .. n

\* three candidates, one returned: the one the rerank service left out,
\* first by final score and third by relevance
C27_Witness ==
    /\ kcall.pc = "returned"
    /\ Len(kcall.candidates) = 3
    /\ kcall.topk = 1
    /\ Len(kcall.result) = 1
    /\ Cardinality(DOMAIN kcall.relevance_map) = 2
    /\ kcall.result[1].final_rank = 1
    /\ kcall.result[1].rerank_score = 0
    /\ kcall.result[1].rerank_rank = 3

---------------------------------------------------------------------------
(* Properties of serving *)

\* the singletons with their values
SingletonValues(store) == [n \in Singletons(store) |-> store[n]]

\* What thread t holds is what its call computes when it runs alone on the
\* index as loaded and the review table as read at startup.
ServedAlone(t) ==
    LET th == scall.thread[t]
        found == Search(Load(FreshIndex(Frac(3, 2), Frac(3, 4), {}), scall.file),
                        th.query, ServeTopks.route_topk)
    IN  /\ th.pc \in {"found", "rerank", "rank", "done", "raised"} => th.found = found
        /\ th.pc = "raised" => RankedResults(t) \notin DOMAIN scall.store
        /\ th.pc \in {"rerank", "rank", "done", "raised"} =>
              scall.store[FinalCommentResults(t)]
                  = RowsOf(CommentRows, Take(found, ServeTopks.retrieval_topk))
        /\ th.pc = "done" =>
              scall.store[RankedResults(t)] \in
                  (IF found = <<>> THEN {<<>>}
                   ELSE Ranked(RowsOf(CommentRows, Take(found, ServeTopks.retrieval_topk)),
                               th.relevance_map, ServeTopks.ranking_topk))

\* C29: once the process serves, no step of a search, of retrieve or of rank
\* creates, drops or changes a singleton (the loaded index with its postings,
\* document lengths, average length and document count, and the review
\* table), and no step of rank changes the candidates it was passed; and
\* what each of the threads running at the same time finds, retrieves and
\* ranks is what its call gives alone on the index as loaded.
C29_ServingWritesNothing ==
    /\ [][(scall.pc = "ready" /\ scall'.pc = "ready") =>
            /\ SingletonValues(scall'.store) = SingletonValues(scall.store)
            /\ \A t \in Threads :
                  scall.thread[t].pc \in {"rerank", "rank"} =>
                      scall'.store[FinalCommentResults(t)]
                          = scall.store[FinalCommentResults(t)]]_vars
    /\ [](scall.pc = "ready" => \A t \in Threads : ServedAlone(t))

\* on an index of two or more documents loaded with its stopwords, thread 1
\* is between two terms of its scoring loop while thread 2 holds the
\* results rank built from more candidates than it returns
C29_Witness ==
    /\ scall.pc = "ready"
    /\ scall.store[SelfIndex].num_docs >= 2
    /\ scall.store[SelfIndex].stopwords # {}
    /\ scall.thread[1].pc = "score"
    /\ scall.thread[1].next = 2
    /\ scall.store[Scores(1)] # <<>>
    /\ scall.thread[2].pc = "done"
    /\ scall.store[RankedResults(2)] # <<>>
    /\ Len(scall.store[RankedResults(2)]) < Len(scall.store[FinalCommentResults(2)])
    /\ scall.store[Scores(2)] # scall.store[Scores(1)]

---------------------------------------------------------------------------
(* Properties of the fan-out of retrieve *)

\* C30: every worker pool a call of retrieve creates (for the routes, for
\* the sub-queries of a route, for the hypotheses of a sub-query) has at
\* least one worker, and the query_idx of every hit is an index into the
\* weight list.
C30_FanOutHasWork ==
    rcall.pc \in {"gather", "returned", "raised"} =>
        /\ \A p \in rcall.pools : p.workers >= 1
        /\ \A k \in 1 .. Len(rcall.comment_results) :
              rcall.comment_results[k].qidx \in 0 .. Len(rcall.weights) - 1

---------------------------------------------------------------------------
(* Properties of the HyDE route and of route_ranks *)

\* the ranks the comment doc obtained over the hypotheses of sub-query q
\* (numbered from 1) in the answers of the comment store
HypothesisRanks(fx, q, doc) ==
    {k \in 1 .. RouteTopk :
        \E h \in 1 .. Len(fx.hyde[q]) : k <= Len(fx.hyde[q][h]) /\ fx.hyde[q][h][k] = doc}

\* C24: among the hits the HyDE route emits, a comment appears at most once
\* per sub-query, with the lowest rank it obtained over the hypotheses of
\* that sub-query.
C24_HydeDedup ==
    (rcall.pc \in {"gather", "returned"} /\ "hyde" \in DOMAIN rcall.route_results) =>
        LET hits == rcall.route_results["hyde"]
        IN  /\ \A i, j \in 1 .. Len(hits) :
                  (hits[i].doc = hits[j].doc /\ hits[i].qidx = hits[j].qidx) => i = j
            /\ \A i \in 1 .. Len(hits) :
                  LET ranks == HypothesisRanks(rcall.fx, hits[i].qidx + 1, hits[i].doc)
                  IN  /\ hits[i].rank \in ranks
                      /\ \A k \in ranks : hits[i].rank <= k

\* comment a recalled for both sub-queries stays once per sub-query, and
\* comment b, second for one hypothesis and first for the other, keeps rank 1
C24_Witness ==
    /\ rcall.pc = "returned"
    /\ "hyde" \in DOMAIN rcall.route_results
    /\ LET hits == rcall.route_results["hyde"]
       IN  /\ \E i, j \in 1 .. Len(hits) :
                 hits[i].doc = "a" /\ hits[j].doc = "a" /\ hits[i].qidx = 0 /\ hits[j].qidx = 1
           /\ \E i \in 1 .. Len(hits) :
                 /\ hits[i].doc = "b" /\ hits[i].qidx = 0 /\ hits[i].rank = 1
                 /\ HypothesisRanks(rcall.fx, 1, "b") = {1, 2}

\* C25: the route_ranks of every returned candidate hold, under each route,
\* exactly the hits of that comment which the route emitted and which were
\* fused, a route without such a hit being no key; the sum of
\* weight[query_idx] / (60 + rank) over the entries is the rrf_score, the
\* float of the code within 10^-9 of the exact sum.
C25_RouteRanksExplainScore ==
    rcall.pc = "returned" =>
        \A k \in 1 .. Len(rcall.comments) :
            LET c == rcall.comments[k]
                fused(r) == SelectSeq(rcall.comment_results,
                                      LAMBDA h : h.doc = c.comment_id /\ h.route = r)
            IN  /\ DOMAIN c.route_ranks = {r \in CommentRoutes : fused(r) # <<>>}
                /\ \A r \in DOMAIN c.route_ranks : c.route_ranks[r] = fused(r)
                /\ WithinTolerance(c.rrf_score,
                                   SumOverRoutes(DOMAIN c.route_ranks, c.route_ranks,
                                                 rcall.weights, c.comment_id))

\* all routes on: comment b has two BM25 entries (rank 2 for the first
\* sub-query, rank 1 for the second) and none of the reverse route
C25_Witness ==
    /\ rcall.pc = "returned"
    /\ rcall.timing = Routes
    /\ rcall.failed = {}
    /\ rcall.weights = <<6, 4>>
    /\ \E k \in 1 .. Len(rcall.comments) :
          /\ rcall.comments[k].comment_id = "b"
          /\ "bm25" \in DOMAIN rcall.comments[k].route_ranks
          /\ Len(rcall.comments[k].route_ranks["bm25"]) = 2
          /\ "reverse" \notin DOMAIN rcall.comments[k].route_ranks

---------------------------------------------------------------------------
(* Properties of the summary route *)

\* the indices, ascending, of the sub-queries among the first n whose summary
\* hit is the category cat
RecalledBy(fx, n, cat) ==
    SelectSeq([q \in 1 .. n |-> q - 1], LAMBDA i : fx.category[i + 1] = cat)

\* C26: the summaries retrieve returns hold each recalled category once,
\* with the indices of all sub-queries that recalled it, and none when the
\* summary route is off; no summary hit is among the fused hits or in
\* route_ranks, and the comment candidates are the fusion of the hits of the
\* comment routes that are enabled, the same with the summary route
\* switched the other way.
C26_SummaryApart ==
    rcall.pc = "returned" =>
        LET n == Len(rcall.weights)
            sums == rcall.summary_results
            other == [rcall.flags EXCEPT !["summary"] = ~@]
        IN  /\ \A i, j \in 1 .. Len(sums) : sums[i].category = sums[j].category => i = j
            /\ \A i \in 1 .. Len(sums) :
                  /\ sums[i].category # ""
                  /\ sums[i].retrieved_by_queries
                        = RecalledBy(rcall.fx, n, sums[i].category)
                  /\ sums[i].retrieved_by_queries # <<>>
            /\ {sums[i].category : i \in 1 .. Len(sums)}
                  = IF rcall.flags["summary"]
                    THEN {rcall.fx.category[q] : q \in 1 .. n} \ {""}
                    ELSE {}
            /\ \A k \in 1 .. Len(rcall.comment_results) :
                  rcall.comment_results[k].route # "summary"
            /\ \A k \in 1 .. Len(rcall.comments) :
                  "summary" \notin DOMAIN rcall.comments[k].route_ranks
            /\ DOMAIN rcall.route_results = EnabledRoutes(other) \cap CommentRoutes
            /\ \A k \in 1 .. Len(rcall.comment_results) :
                  LET h == rcall.comment_results[k]
                  IN  \E m \in 1 .. Len(rcall.route_results[h.route]) :
                          rcall.route_results[h.route][m] = h
            /\ rcall.comments = FinalComments(rcall.comment_results, rcall.route_results,
                                              rcall.weights, rcall.final_topk)

\* two sub-queries recall the same category: one summary, recalled by both,
\* next to fused comments
C26_Witness ==
    /\ rcall.pc = "returned"
    /\ rcall.flags["summary"]
    /\ rcall.summary_results
          = <<[category |-> "food", retrieved_by_queries |-> <<0, 1>>]>>
    /\ rcall.comments # <<>>

---------------------------------------------------------------------------
(* Properties of the completion order *)

\* comment id, score and rank of the candidates of a list
Ranking(comments) ==
    [k \in 1 .. Len(comments) |->
        [comment_id |-> comments[k].comment_id, rrf_score |-> comments[k].rrf_score,
         rrf_rank |-> comments[k].rrf_rank]]

\* the candidates retrieve returns when every task completes in the order
\* in which it was submitted
InSubmissionOrder(fx, flags, weights, final_topk) ==
    LET n == Len(weights)
        rs == SelectSeq(<<"bm25", "vector", "reverse", "hyde">>, LAMBDA r : flags[r])
        orders == [r \in CommentRoutes |-> [k \in 1 .. n |-> k]]
        horders == [q \in 1 .. n |-> [k \in 1 .. NumHypotheses(fx) |-> k]]
        g == Gathered(fx, n, rs, orders, horders)
    IN  FinalComments(g.comment_results, g.route_results, weights, final_topk)

\* C23: the comment ids, their order, rrf_score and rrf_rank that retrieve
\* returns are the same for every order in which the route tasks, the
\* sub-query tasks and the hypothesis tasks complete: they are the ones of
\* the run in which the tasks complete as submitted.
C23_CompletionOrderIrrelevant ==
    rcall.pc = "returned" =>
        Ranking(rcall.comments)
            = Ranking(InSubmissionOrder(rcall.fx, rcall.flags, rcall.weights,
                                        rcall.final_topk))

---------------------------------------------------------------------------
(* Properties of the direct answer *)

\* C28: when the intent model answers anything but RETRIEVAL, so that the
\* recognizer returns false, query reports need_retrieval false, calls
\* neither the detector nor the expander nor retrieve (and with it the
\* embedding service and the routes) nor the reranker, calls the generator
\* at most once, and returns no references.
C28_DirectAnswerCallsNothing ==
    (qcall.pc # "none" /\ qcall.need_retrieval # "none" /\ qcall.answer # "RETRIEVAL") =>
        /\ qcall.need_retrieval = "false"
        /\ qcall.detector_calls = 0
        /\ qcall.expander_calls = 0
        /\ qcall.retriever_calls = 0
        /\ qcall.ranker_calls = 0
        /\ qcall.generator_calls <= 1
        /\ qcall.generator_calls = 1 => qcall.enable_generation
        /\ qcall.references = <<>>

\* a direct answer with generation has returned
C28_Witness ==
    /\ qcall.pc = "done"
    /\ qcall.outcome = "returned"
    /\ qcall.answer = "DIRECT"
    /\ qcall.need_retrieval = "false"
    /\ qcall.enable_expansion
    /\ qcall.generator_calls = 1
    /\ qcall.references = <<>>

=============================================================================
